---- MODULE Spec2Model ----
(***************************************************************************)
(* Discrete curves and the square-root-velocity (SRV) metric of            *)
(* geomstats/geometry/discrete_curves.py.                                  *)
(*                                                                         *)
(* Real numbers are fixed-point integers: the integer x stands for the     *)
(* real x / Scale.  NaN stands for a non-finite float (NaN, +Inf or -Inf): *)
(* every arithmetic operation on it gives it back and every comparison     *)
(* with it is false, as numpy does for NaN.                                *)
(* A curve is a sequence of points, a point a sequence of coordinates, a   *)
(* batch of curves a sequence of curves.                                   *)
(***************************************************************************)
EXTENDS Integers, Sequences, FiniteSets, TLC

VARIABLES
    ambient,    \* the ambient manifold and its metric, fixed at construction
    pc,         \* "ready", "returned", or "project_srv" or "horizontal_path"
                \* inside their loops
    op,         \* the operation called last (or running)
    args,       \* its arguments
    ret,        \* what it returned or raised
    path_fn,    \* the latest path callable returned by geodesic
    proj_st,    \* the local variables of project_srv
    caller_srv, \* the srv array the caller passed to project_srv
    chain,      \* project_srv applied to its own output: the previous output
    hg          \* the callable returned by horizontal_geodesic and its locals

vars == <<ambient, pc, op, args, ret, path_fn, proj_st, caller_srv, chain, hg>>

-----------------------------------------------------------------------------
(* Bounds of the model *)

Scale == 1000        \* fixed-point unit: 1.0 is Scale
MaxCurves == 2       \* largest batch given to square_root_velocity
MaxIterBound == 3    \* largest max_iter given to the projection

-----------------------------------------------------------------------------
(* Floating point arithmetic *)

NaN == -(2^30)

One == Scale

FAdd(a, b) == IF a = NaN \/ b = NaN THEN NaN ELSE a + b

FSub(a, b) == IF a = NaN \/ b = NaN THEN NaN ELSE a - b

FNeg(a) == IF a = NaN THEN NaN ELSE -a

\* a * b / Scale, split so that no intermediate product leaves 32 bits
FMul(a, b) ==
    IF a = NaN \/ b = NaN THEN NaN
    ELSE (a \div Scale) * b + ((a % Scale) * b) \div Scale

\* a / b; a division by zero gives a non-finite value
FDiv(a, b) ==
    IF a = NaN \/ b = NaN \/ b = 0 THEN NaN
    ELSE IF b > 0 THEN (a * Scale) \div b
    ELSE ((-a) * Scale) \div (-b)

RECURSIVE SqrtIter(_, _, _)
SqrtIter(n, lo, hi) ==
    IF lo >= hi THEN lo
    ELSE LET mid == (lo + hi + 1) \div 2
         IN  IF mid * mid <= n THEN SqrtIter(n, mid, hi)
             ELSE SqrtIter(n, lo, mid - 1)

\* gs.sqrt: the square root of a negative number is NaN
FSqrt(a) ==
    IF a = NaN \/ a < 0 THEN NaN ELSE SqrtIter(a * Scale, 0, 46340)

FAbs(a) == IF a = NaN THEN NaN ELSE IF a < 0 THEN -a ELSE a

\* comparisons: false as soon as one side is NaN
FGe(a, b) == a # NaN /\ b # NaN /\ a >= b

FLt(a, b) == a # NaN /\ b # NaN /\ a < b

FLe(a, b) == a # NaN /\ b # NaN /\ a <= b

\* an integer k as a float
FInt(k) == k * Scale

RECURSIVE FSum(_)
FSum(s) == IF s = <<>> THEN 0 ELSE FAdd(Head(s), FSum(Tail(s)))

-----------------------------------------------------------------------------
(* Arrays *)

VAdd(u, v) == [i \in DOMAIN u |-> FAdd(u[i], v[i])]

VSub(u, v) == [i \in DOMAIN u |-> FSub(u[i], v[i])]

VScale(c, u) == [i \in DOMAIN u |-> FMul(c, u[i])]

\* curve-shaped arrays (sequences of vectors)
CAdd(a, b) == [i \in DOMAIN a |-> VAdd(a[i], b[i])]

CSub(a, b) == [i \in DOMAIN a |-> VSub(a[i], b[i])]

CScale(c, a) == [i \in DOMAIN a |-> VScale(c, a[i])]

\* array.shape of a curve: (n_sampling_points, n_coords)
Shape(curve) == <<Len(curve), IF Len(curve) = 0 THEN 0 ELSE Len(curve[1])>>

\* gs.cumsum(array, -2)
RECURSIVE CumSum(_)
CumSum(a) ==
    IF Len(a) <= 1 THEN a
    ELSE LET init == CumSum(SubSeq(a, 1, Len(a) - 1))
         IN  Append(init, VAdd(init[Len(init)], a[Len(a)]))

\* consecutive differences array[1:] - array[:-1]
Diff(a) == [j \in 1..(Len(a) - 1) |-> VSub(a[j + 1], a[j])]

IsFiniteVec(v) == \A i \in DOMAIN v : v[i] # NaN

IsFiniteCurve(a) == \A i \in DOMAIN a : IsFiniteVec(a[i])

-----------------------------------------------------------------------------
(* The ambient manifold: Euclidean space and its metric, and the product   *)
(* (L2) metric over the sampling points.                                   *)

IsEuclideanMetric == ambient.metric = "EuclideanMetric"

IsEuclidean == ambient.manifold = "Euclidean"

euclidean_inner_product(u, v) == FSum([i \in DOMAIN u |-> FMul(u[i], v[i])])

euclidean_norm(v) == FSqrt(euclidean_inner_product(v, v))

euclidean_log(point, base_point) == VSub(point, base_point)

euclidean_exp(tangent_vec, base_point) == VAdd(base_point, tangent_vec)

euclidean_dist(a, b) == euclidean_norm(VSub(a, b))

l2_inner_product(a, b) ==
    FSum([i \in DOMAIN a |-> euclidean_inner_product(a[i], b[i])])

l2_exp(tangent_vec, base_point) == CAdd(base_point, tangent_vec)

l2_dist(a, b) == FSqrt(l2_inner_product(CSub(a, b), CSub(a, b)))

-----------------------------------------------------------------------------
(* Results of a call *)

None == <<>>

NoArgs == [none |-> TRUE]

Returned(v, steps) == [status |-> "ok", err |-> "none", val |-> v, steps |-> steps]

Raised(e, steps) == [status |-> "error", err |-> e, val |-> None, steps |-> steps]

NoRet == [status |-> "none", err |-> "none", val |-> None, steps |-> <<>>]

Running(steps) == [status |-> "running", err |-> "none", val |-> None, steps |-> steps]

-----------------------------------------------------------------------------
(* SRVMetric: the square root velocity transform *)

\* gs.to_ndarray(curve, to_ndim=3) of a single curve: a batch of one curve
ToBatch(curve) == <<curve>>

RECURSIVE Flatten(_)
Flatten(batch) ==
    IF batch = <<>> THEN <<>> ELSE Head(batch) \o Flatten(Tail(batch))

pointwise_inner_product(tangent_vec_a, tangent_vec_b) ==
    [i \in DOMAIN tangent_vec_a |->
        euclidean_inner_product(tangent_vec_a[i], tangent_vec_b[i])]

pointwise_norm(tangent_vec) ==
    [i \in DOMAIN tangent_vec |->
        FSqrt(euclidean_inner_product(tangent_vec[i], tangent_vec[i]))]

\* the rows of the flattened array that are kept: index is 0-based
srv_mask(index, n_sampling_points) == ~((index + 1) % n_sampling_points = 0)

\* (mutant) a segment of length zero is caught and given the zero vector
srv_flat_guarded(curve) ==
    LET n_curves == Len(curve)
        n_sampling_points == Len(curve[1])
        flat == Flatten(curve)
        coef == FInt(n_sampling_points - 1)
        rows == 1..(n_curves * n_sampling_points - 1)
        velocity == [i \in rows |->
                        VScale(coef, euclidean_log(flat[i + 1], flat[i]))]
        velocity_norm == [i \in rows |-> euclidean_norm(velocity[i])]
    IN  [i \in rows |->
            IF velocity_norm[i] = 0 THEN velocity[i]
            ELSE VScale(FDiv(One, FSqrt(velocity_norm[i])), velocity[i])]

\* the flattened array of all consecutive differences, before the selection
srv_flat(curve) ==
    LET n_curves == Len(curve)
        n_sampling_points == Len(curve[1])
        flat == Flatten(curve)
        coef == FInt(n_sampling_points - 1)
        rows == 1..(n_curves * n_sampling_points - 1)
        velocity == [i \in rows |->
                        VScale(coef, euclidean_log(flat[i + 1], flat[i]))]
        velocity_norm == [i \in rows |-> euclidean_norm(velocity[i])]
    IN  [i \in rows |->
            VScale(FDiv(One, FSqrt(velocity_norm[i])), velocity[i])]

\* (mutant) the selection without the mask: the first rows of the flat array
square_root_velocity_unmasked(curve) ==
    LET n_curves == Len(curve)
        n_sampling_points == Len(curve[1])
        srv == srv_flat(curve)
    IN  [k \in 1..n_curves |-> [j \in 1..(n_sampling_points - 1) |->
            srv[(k - 1) * (n_sampling_points - 1) + j]]]

\* curve is a batch: [n_curves, n_sampling_points, n_coords]
square_root_velocity(curve) ==
    LET n_curves == Len(curve)
        n_sampling_points == Len(curve[1])
        srv == srv_flat(curve)
        index == [i \in 1..(n_curves * n_sampling_points - 1) |-> i - 1]
        kept == SelectSeq(index, LAMBDA ix : srv_mask(ix, n_sampling_points))
    IN  [k \in 1..n_curves |-> [j \in 1..(n_sampling_points - 1) |->
            srv[kept[(k - 1) * (n_sampling_points - 1) + j] + 1]]]

\* (mutant) the check is left out
NoEuclideanCheck(result) == result

\* the check every Euclidean-only operation starts with
RaiseUnlessEuclideanMetric(result) ==
    IF ~IsEuclideanMetric THEN Raised("AssertionError", <<>>) ELSE result

\* (mutant) the step is 1 / n_sampling_points
srv_inverse_curve_wrong_step(srv, starting_point) ==
    LET n_sampling_points == Len(srv) + 1
        srv_norm == [i \in DOMAIN srv |-> euclidean_norm(srv[i])]
        delta_points == [i \in DOMAIN srv |->
            VScale(FMul(FDiv(One, FInt(n_sampling_points)),
                        srv_norm[i]), srv[i])]
    IN  CumSum(<<starting_point>> \o delta_points)

\* one srv array [n_sampling_points - 1, n_coords] and one starting point
srv_inverse_curve(srv, starting_point) ==
    LET n_sampling_points_minus_one == Len(srv)
        srv_norm == [i \in DOMAIN srv |-> euclidean_norm(srv[i])]
        delta_points == [i \in DOMAIN srv |->
            VScale(FMul(FDiv(One, FInt(n_sampling_points_minus_one)),
                        srv_norm[i]), srv[i])]
    IN  CumSum(<<starting_point>> \o delta_points)

square_root_velocity_inverse(srv, starting_point) ==
    RaiseUnlessEuclideanMetric(
        Returned(srv_inverse_curve(srv, starting_point), <<"cumsum">>))

d_srv_value(tangent_vec, curve) ==
    LET n_sampling_points == Len(curve)
        d_vec == CScale(FInt(n_sampling_points), Diff(tangent_vec))
        velocity_vec == CScale(FInt(n_sampling_points), Diff(curve))
        velocity_norm == [i \in DOMAIN velocity_vec |->
                             euclidean_norm(velocity_vec[i])]
        unit_velocity_vec == [i \in DOMAIN velocity_vec |->
            VScale(FDiv(One, velocity_norm[i]), velocity_vec[i])]
        d_vec_tangential == [i \in DOMAIN velocity_vec |->
            VScale(euclidean_inner_product(d_vec[i], unit_velocity_vec[i]),
                   unit_velocity_vec[i])]
        d_srv_vec == CSub(d_vec, CScale(One \div 2, d_vec_tangential))
    IN  [i \in DOMAIN d_srv_vec |->
            VScale(FDiv(One, FSqrt(velocity_norm[i])), d_srv_vec[i])]

d_square_root_velocity(tangent_vec, curve) ==
    RaiseUnlessEuclideanMetric(
        Returned(d_srv_value(tangent_vec, curve), <<"d_srv_vec">>))

inner_product(tangent_vec_a, tangent_vec_b, curve) ==
    RaiseUnlessEuclideanMetric(
        LET n_sampling_points == Len(curve)
            d_srv_vec_a == d_square_root_velocity(tangent_vec_a, curve).val
            d_srv_vec_b == d_square_root_velocity(tangent_vec_b, curve).val
        IN  Returned(FDiv(l2_inner_product(d_srv_vec_a, d_srv_vec_b),
                          FInt(n_sampling_points)),
                     <<"d_square_root_velocity", "d_square_root_velocity",
                       "l2_inner_product">>))

srv_inner_product(srv_1, srv_2) ==
    FDiv(l2_inner_product(srv_1, srv_2), FInt(Len(srv_1)))

srv_norm(srv) == FSqrt(srv_inner_product(srv, srv))

-----------------------------------------------------------------------------
(* SRVMetric: exp, log, geodesic, dist *)

\* x ** (5 / 2) and x ** (3 / 2)
\* (mutant) the exponent 3 / 2 where exp has 5 / 2
FPow52_wrong_exponent(x) == FMul(x, FSqrt(x))

FPow52(x) == FMul(FMul(x, x), FSqrt(x))

FPow32(x) == FMul(x, FSqrt(x))

\* one curve of the batch in exp
exp_curve(tangent_vec, base_point, base_curve_srv) ==
    LET n_sampling_points == Len(base_point)
        tangent_vec_derivative ==
            CScale(FInt(n_sampling_points - 1), Diff(tangent_vec))
        base_curve_velocity ==
            CScale(FInt(n_sampling_points - 1), Diff(base_point))
        base_curve_velocity_norm == pointwise_norm(base_curve_velocity)
        inner_prod == pointwise_inner_product(tangent_vec_derivative,
                                              base_curve_velocity)
        coef_1 == [j \in DOMAIN inner_prod |->
                      FDiv(One, FSqrt(base_curve_velocity_norm[j]))]
        coef_2 == [j \in DOMAIN inner_prod |->
                      FMul(FDiv(FNeg(One),
                                FMul(FInt(2), FPow52(base_curve_velocity_norm[j]))),
                           inner_prod[j])]
        term_1 == [j \in DOMAIN inner_prod |->
                      VScale(coef_1[j], tangent_vec_derivative[j])]
        term_2 == [j \in DOMAIN inner_prod |->
                      VScale(coef_2[j], base_curve_velocity[j])]
        srv_initial_derivative == CAdd(term_1, term_2)
        end_curve_srv == l2_exp(srv_initial_derivative, base_curve_srv)
        end_curve_starting_point == euclidean_exp(tangent_vec[1], base_point[1])
    IN  square_root_velocity_inverse(end_curve_srv,
                                     end_curve_starting_point).val

\* tangent_vec and base_point are single curves; the result is a batch of one
exp(tangent_vec, base_point) ==
    RaiseUnlessEuclideanMetric(
        LET base_batch == ToBatch(base_point)
            tangent_batch == ToBatch(tangent_vec)
            base_curve_srv == square_root_velocity(base_batch)
        IN  Returned([k \in DOMAIN base_batch |->
                         exp_curve(tangent_batch[k], base_batch[k],
                                   base_curve_srv[k])],
                     <<"square_root_velocity", "l2_exp", "ambient_exp",
                       "square_root_velocity_inverse">>))

\* one curve of the batch in log
log_curve(point, base_point, curve_srv, base_curve_srv) ==
    LET n_sampling_points == Len(point)
        n_coords == Len(point[1])
        base_curve_velocity ==
            CScale(FInt(n_sampling_points - 1), Diff(base_point))
        base_curve_velocity_norm == pointwise_norm(base_curve_velocity)
        srv_diff == CSub(curve_srv, base_curve_srv)
        inner_prod == pointwise_inner_product(srv_diff, base_curve_velocity)
        coef_1 == [j \in DOMAIN inner_prod |->
                      FSqrt(base_curve_velocity_norm[j])]
        coef_2 == [j \in DOMAIN inner_prod |->
                      FMul(FDiv(One, FPow32(base_curve_velocity_norm[j])),
                           inner_prod[j])]
        term_1 == [j \in DOMAIN inner_prod |-> VScale(coef_1[j], srv_diff[j])]
        term_2 == [j \in DOMAIN inner_prod |->
                      VScale(coef_2[j], base_curve_velocity[j])]
        log_derivative == CAdd(term_1, term_2)
        log_starting_points == euclidean_log(point[1], base_point[1])
        log_cumsum == <<[c \in 1..n_coords |-> 0]>> \o CumSum(log_derivative)
    IN  [i \in DOMAIN log_cumsum |->
            VAdd(log_starting_points,
                 VScale(FDiv(One, FInt(n_sampling_points - 1)), log_cumsum[i]))]

log(point, base_point) ==
    RaiseUnlessEuclideanMetric(
        LET point_batch == ToBatch(point)
            base_batch == ToBatch(base_point)
            curve_srv == square_root_velocity(point_batch)
            base_curve_srv == square_root_velocity(base_batch)
        IN  Returned([k \in DOMAIN point_batch |->
                         log_curve(point_batch[k], base_batch[k],
                                   curve_srv[k], base_curve_srv[k])],
                     <<"square_root_velocity", "square_root_velocity",
                       "ambient_log", "cumsum">>))

\* the default tolerances of the backend, in fixed-point units
gs_atol == 2

gs_rtol == 1

\* gs.allclose(a, b) of two curves: |a - b| <= atol + rtol * |b| everywhere
allclose(a, b) ==
    \A i \in DOMAIN a : \A c \in DOMAIN a[i] :
        FLe(FAbs(FSub(a[i][c], b[i][c])),
            FAdd(gs_atol, FMul(gs_rtol, FAbs(b[i][c]))))

\* the callable geodesic returns: what the closure captures
PathOf(initial_curve, initial_tangent_vec) ==
    [defined |-> TRUE, initial_curve |-> initial_curve,
     initial_tangent_vec |-> initial_tangent_vec]

NoPath == [defined |-> FALSE, initial_curve |-> None,
           initial_tangent_vec |-> None]

\* (mutant) the supplied vector is kept when it passes the comparison
geodesic_to_end_keeps_supplied(initial_curve, end_curve, initial_tangent_vec) ==
    LET shooting_tangent_vec == log(end_curve, initial_curve[1]).val
    IN  IF initial_tangent_vec # None
           /\ ~allclose(shooting_tangent_vec[1], initial_tangent_vec)
        THEN Raised("RuntimeError", <<"log">>)
        ELSE IF initial_tangent_vec # None
        THEN Returned(PathOf(initial_curve, ToBatch(initial_tangent_vec)),
                      <<"log">>)
        ELSE Returned(PathOf(initial_curve, shooting_tangent_vec), <<"log">>)

\* the second branch of geodesic: end_curve is given
geodesic_to_end(initial_curve, end_curve, initial_tangent_vec) ==
    LET shooting_tangent_vec == log(end_curve, initial_curve[1]).val
    IN  IF initial_tangent_vec # None
           /\ ~allclose(shooting_tangent_vec[1], initial_tangent_vec)
        THEN Raised("RuntimeError", <<"log">>)
        ELSE Returned(PathOf(initial_curve, shooting_tangent_vec), <<"log">>)

\* (mutant) the missing second control is found only when the path is used
geodesic_unchecked(initial_curve, end_curve, initial_tangent_vec) ==
    RaiseUnlessEuclideanMetric(
        IF end_curve # None
        THEN geodesic_to_end(ToBatch(initial_curve), end_curve,
                             initial_tangent_vec)
        ELSE Returned(PathOf(ToBatch(initial_curve),
                             ToBatch(initial_tangent_vec)), <<>>))

\* (mutant) two controls are refused like none
geodesic_exactly_one(initial_curve, end_curve, initial_tangent_vec) ==
    RaiseUnlessEuclideanMetric(
        IF (end_curve = None) = (initial_tangent_vec = None)
        THEN Raised("ValueError", <<>>)
        ELSE IF end_curve # None
        THEN geodesic_to_end(ToBatch(initial_curve), end_curve,
                             initial_tangent_vec)
        ELSE Returned(PathOf(ToBatch(initial_curve),
                             ToBatch(initial_tangent_vec)), <<>>))

\* initial_curve, end_curve, initial_tangent_vec: single curves, or None
geodesic(initial_curve, end_curve, initial_tangent_vec) ==
    RaiseUnlessEuclideanMetric(
        IF end_curve = None /\ initial_tangent_vec = None
        THEN Raised("ValueError", <<>>)
        ELSE IF end_curve # None
        THEN geodesic_to_end(ToBatch(initial_curve), end_curve,
                             initial_tangent_vec)
        ELSE Returned(PathOf(ToBatch(initial_curve),
                             ToBatch(initial_tangent_vec)), <<>>))

\* the sum of the first i entries of t
RECURSIVE SumUpTo(_, _)
SumUpTo(t, i) == IF i = 0 THEN 0 ELSE FAdd(t[i], SumUpTo(t, i - 1))

\* (mutant) the time runs on from one sample to the next
path_accumulating(fn, t) ==
    LET tangent_vecs == [i \in DOMAIN t |->
                            CScale(SumUpTo(t, i), fn.initial_tangent_vec[1])]
        curve_at_time_t == [i \in DOMAIN t |->
                               exp(tangent_vecs[i], fn.initial_curve[1])]
    IN  IF \E i \in DOMAIN t : curve_at_time_t[i].status = "error"
        THEN Raised("AssertionError", <<>>)
        ELSE Returned([i \in DOMAIN t |-> curve_at_time_t[i].val],
                      [i \in DOMAIN t |-> "exp"])

\* (mutant) the tangent vector is not scaled by the time
path_unscaled(fn, t) ==
    LET curve_at_time_t == [i \in DOMAIN t |->
                               exp(fn.initial_tangent_vec[1],
                                   fn.initial_curve[1])]
    IN  IF \E i \in DOMAIN t : curve_at_time_t[i].status = "error"
        THEN Raised("AssertionError", <<>>)
        ELSE Returned([i \in DOMAIN t |-> curve_at_time_t[i].val],
                      [i \in DOMAIN t |-> "exp"])

\* the callable returned by geodesic, applied to the sequence of times t
path(fn, t) ==
    LET tangent_vecs == [i \in DOMAIN t |->
                            CScale(t[i], fn.initial_tangent_vec[1])]
        curve_at_time_t == [i \in DOMAIN t |->
                               exp(tangent_vecs[i], fn.initial_curve[1])]
    IN  IF \E i \in DOMAIN t : curve_at_time_t[i].status = "error"
        THEN Raised("AssertionError", <<>>)
        ELSE Returned([i \in DOMAIN t |-> curve_at_time_t[i].val],
                      [i \in DOMAIN t |-> "exp"])

\* (mutant) the shapes are compared after the representations are computed
dist_late_shape_check(point_a, point_b) ==
    RaiseUnlessEuclideanMetric(
        IF Shape(point_a) # Shape(point_b)
        THEN Raised("ValueError",
                    <<"square_root_velocity", "square_root_velocity">>)
        ELSE
        LET srv_a == square_root_velocity(ToBatch(point_a))
            srv_b == square_root_velocity(ToBatch(point_b))
            dist_starting_points == euclidean_dist(point_a[1], point_b[1])
            dist_srvs == l2_dist(srv_a[1], srv_b[1])
        IN  Returned(FSqrt(FAdd(FMul(dist_starting_points, dist_starting_points),
                                FMul(dist_srvs, dist_srvs))),
                     <<"square_root_velocity", "square_root_velocity",
                       "ambient_dist", "l2_dist">>))

\* (mutant) the starting point of point_b is taken for the origin
dist_from_origin(point_a, point_b) ==
    RaiseUnlessEuclideanMetric(
        IF Shape(point_a) # Shape(point_b)
        THEN Raised("ValueError", <<>>)
        ELSE
        LET srv_a == square_root_velocity(ToBatch(point_a))
            srv_b == square_root_velocity(ToBatch(point_b))
            dist_starting_points == euclidean_norm(point_a[1])
            dist_srvs == l2_dist(srv_a[1], srv_b[1])
        IN  Returned(FSqrt(FAdd(FMul(dist_starting_points, dist_starting_points),
                                FMul(dist_srvs, dist_srvs))),
                     <<"square_root_velocity", "square_root_velocity",
                       "ambient_dist", "l2_dist">>))

dist(point_a, point_b) ==
    RaiseUnlessEuclideanMetric(
        IF Shape(point_a) # Shape(point_b)
        THEN Raised("ValueError", <<>>)
        ELSE
        LET srv_a == square_root_velocity(ToBatch(point_a))
            srv_b == square_root_velocity(ToBatch(point_b))
            dist_starting_points == euclidean_dist(point_a[1], point_b[1])
            dist_srvs == l2_dist(srv_a[1], srv_b[1])
        IN  Returned(FSqrt(FAdd(FMul(dist_starting_points, dist_starting_points),
                                FMul(dist_srvs, dist_srvs))),
                     <<"square_root_velocity", "square_root_velocity",
                       "ambient_dist", "l2_dist">>))

-----------------------------------------------------------------------------
(* SRVMetric.space_derivative *)

\* the square matrix with vec on its diagonal
from_vector_to_diagonal_matrix(vec) ==
    [r \in 1..Len(vec) |-> [c \in 1..Len(vec) |-> IF r = c THEN vec[r] ELSE 0]]

\* gs.matmul of a square matrix and a curve: one row per sample point
matmul(mat, curve) ==
    [r \in 1..Len(mat) |->
        [c \in 1..Len(curve[1]) |->
            FSum([k \in 1..Len(curve) |-> FMul(mat[r][k], curve[k][c])])]]

\* (mutant) forward differences at the interior points
space_derivative_forward(curve) ==
    LET n_points == Len(curve)
    IN  [j \in 1..n_points |->
            VScale(FInt(n_points),
                   IF j < n_points THEN VSub(curve[j + 1], curve[j])
                   ELSE VSub(curve[j], curve[j - 1]))]

space_derivative(curve) ==
    LET n_points == Len(curve)
        vec_1 == [j \in 1..n_points |->
                    IF j = 1 THEN FInt(-1)
                    ELSE IF j = n_points THEN One ELSE 0]
        vec_2 == [j \in 1..(n_points - 1) |->
                    IF j = n_points - 1 THEN One ELSE FDiv(One, FInt(2))]
        vec_3 == [j \in 1..(n_points - 1) |->
                    IF j = 1 THEN One ELSE FDiv(One, FInt(2))]
        mat_1 == from_vector_to_diagonal_matrix(vec_1)
        diag_2 == from_vector_to_diagonal_matrix(vec_2)
        diag_3 == from_vector_to_diagonal_matrix(vec_3)
        \* a column of zeros on the right, then a row of zeros on top
        mat_2 == [r \in 1..n_points |-> [c \in 1..n_points |->
                    IF r = 1 \/ c = n_points THEN 0 ELSE diag_2[r - 1][c]]]
        \* a column of zeros on the left, then a row of zeros below
        mat_3 == [r \in 1..n_points |-> [c \in 1..n_points |->
                    IF r = n_points \/ c = 1 THEN 0 ELSE diag_3[r][c - 1]]]
        mat_space_deriv ==
            [r \in 1..n_points |-> [c \in 1..n_points |->
                FAdd(FSub(mat_1[r][c], mat_2[r][c]), mat_3[r][c])]]
    IN  CScale(FInt(n_points), matmul(mat_space_deriv, curve))

-----------------------------------------------------------------------------
(* ClosedDiscreteCurves.project and ClosedSRVMetric.project_srv *)

\* (mutant) the dimension is not looked at
is_planar_any_dim == IsEuclidean

\* is_planar of project (the manifold) and of project_srv (the metric)
is_planar_manifold == IsEuclidean /\ ambient.dim = 2

is_planar_metric == IsEuclideanMetric /\ ambient.dim = 2

\* SymmetricMatrices.from_vector of a vector of 3 = 2 * 3 / 2 values
from_vector(vec) == << <<vec[1], vec[2]>>, <<vec[2], vec[3]>> >>

Column(array, k) == [i \in DOMAIN array |-> array[i][k]]

g_criterion(srv, srv_norms) ==
    [k \in 1..2 |-> FSum([i \in DOMAIN srv |-> FMul(srv[i][k], srv_norms[i])])]

ambient_norms(array) == [i \in DOMAIN array |-> euclidean_norm(array[i])]

\* (mutants) the body runs before the first test; the cap is forgotten; the
\* cap is one short
loop_condition_at_least_once(criteria, atol, nb_iter, max_iter) ==
    (nb_iter = 0 \/ FGe(criteria, atol)) /\ nb_iter < max_iter

loop_condition_uncapped(criteria, atol, nb_iter, max_iter) ==
    FGe(criteria, atol)

loop_condition_one_short(criteria, atol, nb_iter, max_iter) ==
    FGe(criteria, atol) /\ nb_iter < max_iter - 1

\* the condition of the while loop
\* (mutant) the loop does not look at the residual
loop_condition_ignores_atol(criteria, atol, nb_iter, max_iter) ==
    nb_iter < max_iter

loop_condition(criteria, atol, nb_iter, max_iter) ==
    FGe(criteria, atol) /\ nb_iter < max_iter

\* g_jacobian of one iteration
g_jacobian_of(proj) ==
    LET jacobian_vec ==
            << FMul(FInt(3), euclidean_inner_product(Column(proj, 1), Column(proj, 1))),
               FMul(FInt(3), euclidean_inner_product(Column(proj, 1), Column(proj, 2))),
               FMul(FInt(3), euclidean_inner_product(Column(proj, 2), Column(proj, 2))) >>
        sym == from_vector(jacobian_vec)
        norm_of_proj == srv_norm(proj)
        proj_squared_norm == FMul(norm_of_proj, norm_of_proj)
    IN  << <<FAdd(sym[1][1], proj_squared_norm), sym[1][2]>>,
           <<sym[2][1], FAdd(sym[2][2], proj_squared_norm)>> >>

determinant(m) == FSub(FMul(m[1][1], m[2][2]), FMul(m[1][2], m[2][1]))

\* gs.linalg.inv of a 2 x 2 matrix that is not singular
linalg_inv(m) ==
    LET det == determinant(m)
    IN  << <<FDiv(m[2][2], det), FDiv(FNeg(m[1][2]), det)>>,
           <<FDiv(FNeg(m[2][1]), det), FDiv(m[1][1], det)>> >>

MatVec(m, v) ==
    [r \in 1..2 |-> FAdd(FMul(m[r][1], v[1]), FMul(m[r][2], v[2]))]

\* grad_k = proj_norms[:, None] * e_k + (proj[:, k] / proj_norms)[:, None] * proj
gradient(proj, proj_norms, k) ==
    [i \in DOMAIN proj |-> [c \in 1..2 |->
        FAdd(FMul(proj_norms[i], IF c = k THEN One ELSE 0),
             FMul(FDiv(proj[i][k], proj_norms[i]), proj[i][c]))]]

CDivide(array, x) ==
    [i \in DOMAIN array |-> [c \in DOMAIN array[i] |-> FDiv(array[i][c], x)]]

\* the two basis vectors of one iteration
basis_of(grad_1, grad_2) ==
    LET basis_vector_1 == CDivide(grad_1, srv_norm(grad_1))
        grad_2_component == srv_inner_product(grad_2, basis_vector_1)
        grad_2_proj == CScale(grad_2_component, basis_vector_1)
        basis_vector_2 == CSub(grad_2, grad_2_proj)
    IN  <<basis_vector_1, CDivide(basis_vector_2, srv_norm(basis_vector_2))>>

\* proj -= gs.sum(beta[:, None, None] * basis, axis=0): the array after it
updated_in_place(proj, beta, basis) ==
    CSub(proj, CAdd(CScale(beta[1], basis[1]), CScale(beta[2], basis[2])))

\* proj = proj * initial_norm / srv_norm(proj): a new array
\* (mutant) the projection is not rescaled to the initial norm
renormalized_skipped(proj, initial_norm) == proj

renormalized(proj, initial_norm) ==
    CDivide(CScale(initial_norm, proj), srv_norm(proj))

\* the local variables of project_srv when the loop is reached
project_srv_locals(srv, atol, max_iter, from_project, curve) ==
    [running |-> TRUE,
     initial_norm |-> srv_norm(srv),
     proj |-> srv,
     aliased |-> TRUE,
     proj_norms |-> ambient_norms(srv),
     residual |-> g_criterion(srv, ambient_norms(srv)),
     criteria |-> euclidean_norm(g_criterion(srv, ambient_norms(srv))),
     nb_iter |-> 0,
     atol |-> atol,
     max_iter |-> max_iter,
     from_project |-> from_project,
     curve |-> curve]

\* the locals after the statements that follow the in-place update
after_update(st, moved) ==
    \* renormalization, norms, residual, criterion, counter
    LET new_proj == renormalized(moved, st.initial_norm)
        new_norms == ambient_norms(new_proj)
        new_residual == g_criterion(new_proj, new_norms)
    IN  [st EXCEPT !.proj = new_proj,
                   !.aliased = FALSE,
                   !.proj_norms = new_norms,
                   !.residual = new_residual,
                   !.criteria = euclidean_norm(new_residual),
                   !.nb_iter = st.nb_iter + 1]

-----------------------------------------------------------------------------
(* QuotientSRVMetric.split_horizontal_vertical *)

a_param == One

b_param == FDiv(One, FInt(2))

quotient == FDiv(a_param, b_param)

\* the interior sampling points of a curve, numbered from 1
Interior(curve) == 1..(Len(curve) - 2)

\* (curve[2:, :] - curve[:-2, :]) / 2
central_difference(curve) ==
    [j \in Interior(curve) |->
        [c \in DOMAIN curve[j] |->
            FDiv(FSub(curve[j + 2][c], curve[j][c]), FInt(2))]]

\* curve[2:, :] - 2 * curve[1:-1, :] + curve[:-2, :]
second_difference(curve) ==
    [j \in Interior(curve) |->
        [c \in DOMAIN curve[j] |->
            FAdd(FSub(curve[j + 2][c], FMul(FInt(2), curve[j + 1][c])),
                 curve[j][c])]]

\* np.diag(vec_a[:-1], 1) + np.diag(vec_b) + np.diag(vec_c[1:], -1)
tridiagonal(vec_a, vec_b, vec_c) ==
    [r \in DOMAIN vec_b |-> [c \in DOMAIN vec_b |->
        IF c = r THEN vec_b[r]
        ELSE IF c = r + 1 THEN vec_a[r]
        ELSE IF c = r - 1 THEN vec_c[r]
        ELSE 0]]

\* np.linalg.solve for one or two unknowns; a singular system is refused
linalg_solve(linear_system, vec_d) ==
    IF Len(vec_d) = 1
    THEN IF linear_system[1][1] = 0 THEN Raised("LinAlgError", <<>>)
         ELSE Returned(<<FDiv(vec_d[1], linear_system[1][1])>>, <<>>)
    ELSE IF determinant(linear_system) = 0 THEN Raised("LinAlgError", <<>>)
         ELSE Returned(MatVec(linalg_inv(linear_system), vec_d), <<>>)

\* (mutant) the vertical part is added to the tangent vector
horizontal_part_added(tangent_vec, tangent_vec_ver) ==
    CAdd(tangent_vec, tangent_vec_ver)

\* tangent_vec_hor = tangent_vec - tangent_vec_ver
\* (mutant) the vertical part is not taken out of the horizontal part
horizontal_part_unsplit(tangent_vec, tangent_vec_ver) == tangent_vec

horizontal_part(tangent_vec, tangent_vec_ver) ==
    CSub(tangent_vec, tangent_vec_ver)

\* the value is the triple (tangent_vec_hor, tangent_vec_ver, vertical_norm)
split_horizontal_vertical(tangent_vec, curve) ==
    LET ambient_dim == Len(curve[1])
        d_pos == central_difference(curve)
        d_vec == central_difference(tangent_vec)
        d2_pos == second_difference(curve)
        d2_vec == second_difference(tangent_vec)
        norm_d_pos == pointwise_norm(d_pos)
        sq_norm_d_pos == [j \in DOMAIN d_pos |-> FMul(norm_d_pos[j], norm_d_pos[j])]
        norm_d2_pos == pointwise_norm(d2_pos)
        d2_pos_d_pos == pointwise_inner_product(d2_pos, d_pos)
        d2_vec_d_pos == pointwise_inner_product(d2_vec, d_pos)
        d_vec_d2_pos == pointwise_inner_product(d_vec, d2_pos)
        d_vec_d_pos == pointwise_inner_product(d_vec, d_pos)
        sq_quotient == FMul(quotient, quotient)
        vec_a == [j \in DOMAIN d_pos |->
                    FSub(sq_norm_d_pos[j], FMul(b_param, d2_pos_d_pos[j]))]
        vec_b == [j \in DOMAIN d_pos |->
                    FSub(FMul(FInt(-2), sq_norm_d_pos[j]),
                         FMul(sq_quotient,
                              FSub(FMul(norm_d2_pos[j], norm_d2_pos[j]),
                                   FDiv(FMul(d2_pos_d_pos[j], d2_pos_d_pos[j]),
                                        sq_norm_d_pos[j]))))]
        vec_c == [j \in DOMAIN d_pos |->
                    FAdd(sq_norm_d_pos[j], FMul(b_param, d2_pos_d_pos[j]))]
        vec_d == [j \in DOMAIN d_pos |->
                    FMul(norm_d_pos[j],
                         FAdd(FSub(d2_vec_d_pos[j],
                                   FMul(FSub(sq_quotient, One), d_vec_d2_pos[j])),
                              FDiv(FMul(FMul(FSub(sq_quotient, FInt(2)),
                                             d2_pos_d_pos[j]),
                                        d_vec_d_pos[j]),
                                   sq_norm_d_pos[j])))]
        solved == linalg_solve(tridiagonal(vec_a, vec_b, vec_c), vec_d)
        vertical_norm == [i \in DOMAIN curve |->
                            IF i = 1 \/ i = Len(curve) THEN 0
                            ELSE solved.val[i - 1]]
        unit_speed == [j \in DOMAIN d_pos |->
                         VScale(FDiv(One, norm_d_pos[j]), d_pos[j])]
        tangent_vec_ver == [i \in DOMAIN curve |->
                              IF i = 1 \/ i = Len(curve)
                              THEN [c \in 1..ambient_dim |-> 0]
                              ELSE VScale(vertical_norm[i], unit_speed[i - 1])]
        tangent_vec_hor == horizontal_part(tangent_vec, tangent_vec_ver)
    IN  IF solved.status = "error" THEN solved
        ELSE Returned(<<tangent_vec_hor, tangent_vec_ver, vertical_norm>>,
                      <<"linalg_solve">>)

-----------------------------------------------------------------------------
(* QuotientSRVMetric.horizontal_geodesic and the callable it returns.      *)
(* The geodesic of an iteration, the splitting of its time derivative and  *)
(* the values of the cubic splines are not computed: the vertical norms    *)
(* and the gap an iteration finds are a fixed function of the curve the    *)
(* iteration starts from, drawn when horizontal_geodesic is called.  The   *)
(* reparametrization grid is computed from the vertical norms as           *)
(* construct_reparametrization does.                                       *)

\* the iterations of the while loop that are told apart; from the
\* MaxOuter-th on, the iterations are one state of the loop
MaxOuter == 3

\* gs.linspace(0., 1., n_points)
linspace(n_points) ==
    [j \in 1..n_points |-> FDiv(FInt(j - 1), FInt(n_points - 1))]

\* (mutant) every column moves with the time step, the two boundary columns
\* included
rep_next_row_drifting(rep_i, vertical_norm_i, space_deriv_norm_i, n_times) ==
    [j \in 1..Len(rep_i) |-> FAdd(rep_i[j], FDiv(One, FInt(n_times)))]

\* one pass of the loop over i of construct_reparametrization: row i + 1 of
\* rep from row i, by the upwind scheme; the last column is never written
rep_next_row(rep_i, vertical_norm_i, space_deriv_norm_i, n_times) ==
    LET n_points == Len(rep_i)
        d_rep_plus(j) == FSub(rep_i[j + 1], rep_i[j])
        d_rep_minus(j) == FSub(rep_i[j], rep_i[j - 1])
        rep_space_deriv(j) ==
            IF j = 1 THEN FMul(FInt(n_points), FSub(rep_i[2], rep_i[1]))
            ELSE IF FLt(0, vertical_norm_i[j])
                 THEN FMul(FInt(n_points), d_rep_plus(j))
                 ELSE FMul(FInt(n_points), d_rep_minus(j))
        rep_time_deriv(j) ==
            FDiv(FMul(rep_space_deriv(j), vertical_norm_i[j]),
                 space_deriv_norm_i[j])
    IN  [j \in 1..n_points |->
            IF j = n_points THEN One
            ELSE FAdd(rep_i[j], FDiv(rep_time_deriv(j), FInt(n_times)))]

\* rep[i, :], rows counted from 1; rep[0, :] is the uniform grid and
\* rep[:, -1] is set to 1
RECURSIVE rep_row(_, _, _, _, _)
rep_row(i, n_times, n_points, vertical_norm, space_deriv_norm) ==
    IF i = 1
    THEN [linspace(n_points) EXCEPT ![n_points] = One]
    ELSE rep_next_row(rep_row(i - 1, n_times, n_points, vertical_norm,
                              space_deriv_norm),
                      vertical_norm[i - 1], space_deriv_norm[i - 1], n_times)

\* gs.sum(rep[i + 1, 2:] - rep[i + 1, 1:-1] < 0): the pairs compared are
\* those of the columns 1 to n_points - 1, counted from 0
decreasing_pairs(row) ==
    Cardinality({ k \in 2..(Len(row) - 1) : FLt(FSub(row[k + 1], row[k]), 0) })

\* construct_reparametrization: the grid, test_rep, and for every pass i
\* whether the warning was printed in it
construct_reparametrization(n_times, n_points, vertical_norm, space_deriv_norm) ==
    LET grid == [i \in 1..n_times |->
                    rep_row(i, n_times, n_points, vertical_norm,
                            space_deriv_norm)]
        test_rep == [i \in 1..n_times |->
                        IF i < n_times THEN decreasing_pairs(grid[i + 1])
                        ELSE 0]
    IN  [rep |-> grid,
         test_rep |-> test_rep,
         printed |-> [i \in 1..(n_times - 1) |->
                         \E k \in 1..i : test_rep[k] # 0]]

\* CubicSpline(x, y) raises ValueError unless x is finite and strictly
\* increasing
CubicSpline_accepts(x) ==
    \A j \in 1..(Len(x) - 1) : FLt(x[j], x[j + 1])

\* invert_reparametrization makes a spline with abscissas repar[i, :] for
\* every i from 1 to n_times - 2 and for the last row
invert_reparametrization_raises(repar) ==
    \E i \in 2..Len(repar) : ~CubicSpline_accepts(repar[i])

\* no grid was built
NoRepar == [rep |-> <<>>, test_rep |-> <<>>, printed |-> <<>>]

\* end_curve, or spline_b of end_curve taken through `resampled` inverse
\* reparametrizations
Resampled(end_curve, resampled) == [of |-> end_curve, resampled |-> resampled]

\* the local variable horizontal_path before its first assignment
Unbound ==
    [bound |-> FALSE, t |-> <<>>, initial_curve |-> None,
     end_curve |-> Resampled(None, 0)]

\* nothing was evaluated before
NoPrev == [defined |-> FALSE, t |-> <<>>, printed |-> <<>>, ret |-> NoRet]

NoHg ==
    [defined |-> FALSE, initial_curve |-> None, end_curve |-> None,
     threshold |-> 0, behaviour |-> <<>>,
     running |-> FALSE, t |-> <<>>, current_end_curve |-> Resampled(None, 0),
     repar_inverse_end |-> <<>>, gap |-> 0, counter |-> 0,
     horizontal_path |-> Unbound, printed |-> <<>>, prev |-> NoPrev,
     arg |-> <<>>, repar |-> NoRepar]

\* horizontal_geodesic: the callable with what it captures
horizontal_geodesic(initial_curve, end_curve, threshold, behaviour) ==
    [NoHg EXCEPT !.defined = TRUE, !.initial_curve = initial_curve,
                 !.end_curve = end_curve, !.threshold = threshold,
                 !.behaviour = behaviour]

\* (mutant) the end curve reached by the previous call is the one to start from
horizontal_path_locals_kept(fn, t) ==
    [fn EXCEPT !.running = TRUE,
               !.t = t,
               !.current_end_curve =
                   IF fn.current_end_curve.of = None
                   THEN Resampled(fn.end_curve, 0)
                   ELSE fn.current_end_curve,
               !.repar_inverse_end = <<>>,
               !.gap = One,
               !.counter = 0,
               !.horizontal_path = Unbound,
               !.printed = <<>>,
               !.arg = <<>>,
               !.repar = NoRepar]

\* (mutant) the initial gap is 2 instead of 1
horizontal_path_locals_wide_gap(fn, t) ==
    [fn EXCEPT !.running = TRUE,
               !.t = t,
               !.current_end_curve = Resampled(fn.end_curve, 0),
               !.repar_inverse_end = <<>>,
               !.gap = FInt(2),
               !.counter = 0,
               !.horizontal_path = Unbound,
               !.printed = <<>>,
               !.arg = <<>>,
               !.repar = NoRepar]

\* the first statements of horizontal_path: horizontal_path itself is a
\* local variable that is not bound yet
horizontal_path_locals(fn, t) ==
    [fn EXCEPT !.running = TRUE,
               !.t = t,
               !.current_end_curve = Resampled(fn.end_curve, 0),
               !.repar_inverse_end = <<>>,
               !.gap = One,
               !.counter = 0,
               !.horizontal_path = Unbound,
               !.printed = <<>>,
               !.arg = <<>>,
               !.repar = NoRepar]

\* (mutant) the loop is left after its first iteration whatever the gap
horizontal_loop_condition_once(gap, threshold, counter) ==
    counter = 0 /\ FLt(threshold, gap)

\* (mutant) the loop gives up after MaxOuter iterations
horizontal_loop_condition_capped(gap, threshold, counter) ==
    FLt(threshold, gap) /\ counter < MaxOuter

\* while(gap > threshold)
horizontal_loop_condition(gap, threshold, counter) == FLt(threshold, gap)

\* an iteration finds the vertical norms of the geodesic and, when the
\* reparametrization can be inverted, a gap; or it raises an error before
GapFound(gap, vertical_norm) ==
    [err |-> "none", gap |-> gap, vertical_norm |-> vertical_norm]

ErrorRaised(err) == [err |-> err, gap |-> NaN, vertical_norm |-> <<>>]

\* the grid of the iteration: the vertical norms of the outcome at every
\* time, over space derivatives of norm 1
iteration_repar(fn, outcome) ==
    LET n_times == Len(fn.t)
        n_points == Len(fn.initial_curve)
    IN  construct_reparametrization(
            n_times, n_points,
            [i \in 1..(n_times - 1) |-> outcome.vertical_norm],
            [i \in 1..n_times |-> [j \in 1..n_points |-> One]])

\* what the iteration that starts from current_end_curve gives
IterationOutcome(fn) ==
    LET k == fn.current_end_curve.resampled + 1
    IN  fn.behaviour[IF k < Len(fn.behaviour) THEN k ELSE Len(fn.behaviour)]

\* (mutant) the inverse reparametrizations are applied oldest first
resampling_argument_oldest_first(repar_inverse_end, counter) ==
    LET k == IF counter + 1 < Len(repar_inverse_end)
             THEN counter + 1 ELSE Len(repar_inverse_end)
    IN  [i \in 1..k |-> repar_inverse_end[i]]

\* arg = t_space; for i in range(counter + 1): arg = repar_inverse_end[-1 - i](arg)
\* the argument is written as the sequence of the inverse reparametrizations
\* applied to t_space, in the order of application
resampling_argument(repar_inverse_end, counter) ==
    LET k == IF counter + 1 < Len(repar_inverse_end)
             THEN counter + 1 ELSE Len(repar_inverse_end)
    IN  [i \in 1..k |-> repar_inverse_end[Len(repar_inverse_end) + 1 - i]]

\* counter += 1, iterations beyond MaxOuter being identified
NextCounter(counter) == IF counter < MaxOuter THEN counter + 1 ELSE counter

\* one iteration that runs to its end, with the gap it finds
horizontal_path_iteration(fn, gap, repar) ==
    LET repar_inverse_end ==
            IF Len(fn.repar_inverse_end) < MaxOuter
            THEN Append(fn.repar_inverse_end, fn.current_end_curve.resampled)
            ELSE fn.repar_inverse_end
        arg == resampling_argument(repar_inverse_end, fn.counter)
        \* horizontal_path[-1] = spline_b(arg)
        new_end_curve == Resampled(fn.end_curve, Len(arg))
    IN  [fn EXCEPT !.repar = repar,
                   !.repar_inverse_end = repar_inverse_end,
                   !.arg = arg,
                   !.horizontal_path =
                       [bound |-> TRUE, t |-> fn.t,
                        initial_curve |-> fn.initial_curve,
                        end_curve |-> new_end_curve],
                   !.gap = gap,
                   !.current_end_curve = new_end_curve,
                   !.printed = IF Len(fn.printed) < MaxOuter
                               THEN Append(fn.printed, gap) ELSE fn.printed,
                   !.counter = NextCounter(fn.counter)]

-----------------------------------------------------------------------------
(* The inputs of the calls *)

\* the ambient manifolds the metrics are built on
Ambients ==
    { [manifold |-> "Euclidean", metric |-> "EuclideanMetric", dim |-> 2, coords |-> 2],
      [manifold |-> "Euclidean", metric |-> "EuclideanMetric", dim |-> 3, coords |-> 3],
      [manifold |-> "Hypersphere", metric |-> "HypersphereMetric", dim |-> 2, coords |-> 3] }

Half == Scale \div 2

PlanePoints == { <<0, 0>>, <<One, 0>>, <<One, One>> }

PlaneVectors == { <<0, 0>>, <<Half, 0>>, <<0, -Half>> }

\* a point or vector of the plane with the coordinates the ambient space has
Embed(p, amb) == IF amb.coords = 3 THEN <<p[1], p[2], p[1] + p[2]>> ELSE p

EmbedCurve(c, amb) == [i \in DOMAIN c |-> Embed(c[i], amb)]

Lengths == {2, 3}

Curves(n, amb) == { EmbedCurve(c, amb) : c \in [1..n -> PlanePoints] }

TangentVecs(n, amb) == { EmbedCurve(c, amb) : c \in [1..n -> PlaneVectors] }

\* curves without and with a repeated point, for the batches and the geodesics
FewCurves(n, amb) ==
    { c \in Curves(n, amb) : c[1] = Embed(<<0, 0>>, amb) \/ c[n] = Embed(<<0, 0>>, amb) }

FewTangentVecs(n, amb) ==
    { v \in TangentVecs(n, amb) : \A i \in 2..n : v[i] = v[2] }

Batches(amb) ==
    UNION { [1..k -> FewCurves(n, amb)] : k \in 1..MaxCurves, n \in Lengths }

\* a tangent vector moved by d in its last coordinate
Perturbed(v, d) ==
    [i \in DOMAIN v |-> [c \in DOMAIN v[i] |->
        IF i = Len(v) /\ c = 1 THEN FAdd(v[i][c], d) ELSE v[i][c]]]

Perturbations == {0, 1, 2, 3, 40}

Times == {0, Half, One}

TimeSeqs == { <<t>> : t \in Times } \cup { <<0, One>>, <<One, Half, 0>> }

-----------------------------------------------------------------------------
(* The state after construction *)

NoProj == [running |-> FALSE]

NoChain == [active |-> FALSE, out |-> None, nb_iter |-> 0]

Init ==
    /\ ambient \in Ambients
    /\ pc = "ready"
    /\ op = "none"
    /\ args = NoArgs
    /\ ret = NoRet
    /\ path_fn = NoPath
    /\ proj_st = NoProj
    /\ caller_srv = None
    /\ chain = NoChain
    /\ hg = NoHg

\* one whole call of a function that returns at once
Call(name, a, r) ==
    /\ pc = "ready"
    /\ pc' = "returned"
    /\ op' = name
    /\ args' = a
    /\ ret' = r
    /\ UNCHANGED <<ambient, proj_st, caller_srv, chain, hg>>

\* the caller drops what the last call gave it and is ready for the next call
Release ==
    /\ pc = "returned"
    /\ pc' = "ready"
    /\ op' = "none"
    /\ args' = NoArgs
    /\ ret' = NoRet
    /\ path_fn' = NoPath
    /\ proj_st' = NoProj
    /\ caller_srv' = None
    /\ chain' = NoChain
    /\ hg' = NoHg
    /\ UNCHANGED ambient

-----------------------------------------------------------------------------
(* The calls *)

\* the ambient log and norm are those of Euclidean space
CallSquareRootVelocity ==
    /\ pc = "ready"
    /\ IsEuclideanMetric
    /\ \E curve \in Batches(ambient) :
          Call("square_root_velocity", [curve |-> curve],
               Returned(square_root_velocity(curve), <<"ambient_log">>))
    /\ path_fn' = NoPath

CallSquareRootVelocityInverse ==
    /\ pc = "ready"
    /\ \E n \in Lengths : \E srv \in TangentVecs(n, ambient) :
       \E starting_point \in { Embed(q, ambient) : q \in PlanePoints } :
          Call("square_root_velocity_inverse",
               [srv |-> srv, starting_point |-> starting_point],
               square_root_velocity_inverse(srv, starting_point))
    /\ path_fn' = NoPath

\* the inverse transform applied to the representation just computed, with
\* the first point of the curve as starting point
CallInverseOfSquareRootVelocity ==
    /\ pc = "returned"
    /\ op = "square_root_velocity"
    /\ \E k \in DOMAIN args.curve :
          /\ op' = "srv_round_trip"
          /\ args' = [curve |-> args.curve[k]]
          /\ ret' = square_root_velocity_inverse(ret.val[k], args.curve[k][1])
    /\ UNCHANGED <<ambient, pc, path_fn, proj_st, caller_srv, chain, hg>>

CallDSquareRootVelocity ==
    /\ pc = "ready"
    /\ \E n \in Lengths : \E tangent_vec \in TangentVecs(n, ambient) :
       \E curve \in FewCurves(n, ambient) :
          Call("d_square_root_velocity",
               [tangent_vec |-> tangent_vec, curve |-> curve],
               d_square_root_velocity(tangent_vec, curve))
    /\ path_fn' = NoPath

CallInnerProduct ==
    /\ pc = "ready"
    /\ \E n \in Lengths : \E tangent_vec_a, tangent_vec_b \in FewTangentVecs(n, ambient) :
       \E curve \in FewCurves(n, ambient) :
          Call("inner_product",
               [tangent_vec_a |-> tangent_vec_a, tangent_vec_b |-> tangent_vec_b,
                curve |-> curve],
               inner_product(tangent_vec_a, tangent_vec_b, curve))
    /\ path_fn' = NoPath

\* the tangent vector at base_point that takes every segment to length zero
CollapsingVec(base_point) ==
    [i \in DOMAIN base_point |->
        VScale(FInt(-2), VSub(base_point[i], base_point[1]))]

CallExp ==
    /\ pc = "ready"
    /\ \E n \in Lengths : \E base_point \in FewCurves(n, ambient) :
       \E tangent_vec \in
              TangentVecs(n, ambient) \cup {CollapsingVec(base_point)} :
          Call("exp", [tangent_vec |-> tangent_vec, base_point |-> base_point],
               exp(tangent_vec, base_point))
    /\ path_fn' = NoPath

CallLog ==
    /\ pc = "ready"
    /\ \E n \in Lengths : \E point \in Curves(n, ambient) :
       \E base_point \in FewCurves(n, ambient) :
          Call("log", [point |-> point, base_point |-> base_point],
               log(point, base_point))
    /\ path_fn' = NoPath

\* log at the same base point of the curve exp just returned
CallLogOfExp ==
    /\ pc = "returned"
    /\ op = "exp"
    /\ ret.status = "ok"
    /\ op' = "log_exp"
    /\ args' = [tangent_vec |-> args.tangent_vec,
                base_point |-> args.base_point, point |-> ret.val[1]]
    /\ ret' = log(ret.val[1], args.base_point)
    /\ UNCHANGED <<ambient, pc, path_fn, proj_st, caller_srv, chain, hg>>

\* exp at the same base point of the tangent vector log just returned
CallExpOfLog ==
    /\ pc = "returned"
    /\ op = "log"
    /\ ret.status = "ok"
    /\ op' = "exp_log"
    /\ args' = [point |-> args.point, base_point |-> args.base_point,
                tangent_vec |-> ret.val[1]]
    /\ ret' = exp(ret.val[1], args.base_point)
    /\ UNCHANGED <<ambient, pc, path_fn, proj_st, caller_srv, chain, hg>>

\* the initial tangent vectors a caller may supply with end_curve: none, a
\* fixed field, or the shooting vector itself moved by a small amount
SuppliedTangentVecs(n, initial_curve, end_curve) ==
    {None} \cup FewTangentVecs(n, ambient)
    \cup (IF end_curve = None \/ ~IsEuclideanMetric THEN {}
          ELSE { Perturbed(log(end_curve, initial_curve).val[1], d) :
                    d \in Perturbations })

CallGeodesic ==
    /\ pc = "ready"
    /\ \E n \in Lengths : \E initial_curve \in FewCurves(n, ambient) :
       \E end_curve \in {None} \cup FewCurves(n, ambient) :
       \E initial_tangent_vec \in
              SuppliedTangentVecs(n, initial_curve, end_curve) :
       \E r \in {geodesic(initial_curve, end_curve, initial_tangent_vec)} :
          /\ Call("geodesic",
                  [initial_curve |-> initial_curve, end_curve |-> end_curve,
                   initial_tangent_vec |-> initial_tangent_vec], r)
          /\ path_fn' = IF r.status = "ok" THEN r.val ELSE NoPath

\* the caller evaluates the path it holds; the path captures its curves, and
\* the caller still knows the end_curve it gave to geodesic
CallPath ==
    /\ pc = "returned"
    /\ path_fn.defined
    /\ \E t \in TimeSeqs :
          /\ op' = "path"
          /\ args' = [t |-> t, end_curve |-> args.end_curve]
          /\ ret' = path(path_fn, t)
    /\ UNCHANGED <<ambient, pc, path_fn, proj_st, caller_srv, chain, hg>>

CallDist ==
    /\ pc = "ready"
    /\ \E na, nb \in Lengths : \E point_a \in FewCurves(na, ambient) :
       \E point_b \in Curves(nb, ambient) :
          Call("dist", [point_a |-> point_a, point_b |-> point_b],
               dist(point_a, point_b))
    /\ path_fn' = NoPath

\* curves of three points, and curves of four points that leave the origin
\* along the first axis
SplitCurves(amb) ==
    Curves(3, amb)
    \cup { c \in Curves(4, amb) : c[1] = Embed(<<0, 0>>, amb) /\ c[2] = Embed(<<One, 0>>, amb) }

\* no check of the ambient space is made
CallSplitHorizontalVertical ==
    /\ pc = "ready"
    /\ \E curve \in SplitCurves(ambient) :
       \E tangent_vec \in TangentVecs(Len(curve), ambient) :
          Call("split_horizontal_vertical",
               [tangent_vec |-> tangent_vec, curve |-> curve],
               split_horizontal_vertical(tangent_vec, curve))
    /\ path_fn' = NoPath

\* the curves, thresholds and time grids given to horizontal_geodesic
HgCurves(amb) ==
    { c \in FewCurves(3, amb) : c[2] = Embed(<<One, 0>>, amb) }

Thresholds == {Scale \div 1000, One, FInt(2)}

\* the gap is the norm of a difference of two curves resampled from cubic
\* splines, which are made of finite values only: it is a number
Gaps == {0, FInt(3)}

\* vertical norms at an interior point: none, small, and large ones of
\* either sign
VerticalNorms == {0, Half, FInt(2), FInt(-2)}

\* split_horizontal_vertical pads the vertical norms with 0 at both ends
VerticalNormRows(n_points) ==
    { [j \in 1..n_points |-> IF j = 1 \/ j = n_points THEN 0 ELSE interior[j]]
        : interior \in [2..(n_points - 1) -> VerticalNorms] }

\* the solve of split_horizontal_vertical refuses a singular system
Outcomes ==
    { GapFound(gap, <<0, 0, 0>>) : gap \in Gaps }
    \cup { GapFound(0, vertical_norm) : vertical_norm \in VerticalNormRows(3) }
    \cup {ErrorRaised("LinAlgError")}

Behaviours == UNION { [1..k -> Outcomes] : k \in 1..2 }

\* norms of the space derivative: 1 everywhere but at the first point, where
\* it is also 0 (two equal first points) or not a number
SpaceDerivNormRows(n_points) ==
    { [j \in 1..n_points |-> IF j = 1 THEN first ELSE One]
        : first \in {One, 0, NaN} }

TimeGrids == { <<0, One>>, <<0, Half, One>> }

\* no check of the ambient space is made when the callable is built
CallSpaceDerivative ==
    /\ pc = "ready"
    /\ \E curve \in Curves(2, ambient) \cup SplitCurves(ambient) :
          Call("space_derivative", [curve |-> curve],
               Returned(space_derivative(curve), <<>>))
    /\ path_fn' = NoPath

\* construct_reparametrization on its own, as the loop body calls it
CallConstructReparametrization ==
    /\ pc = "ready"
    /\ \E n_times \in {2, 3} : \E n_points \in {3, 4} :
       \E vertical_norm \in [1..(n_times - 1) -> VerticalNormRows(n_points)] :
       \E norms \in SpaceDerivNormRows(n_points) :
       \E space_deriv_norm \in {[i \in 1..n_times |-> norms]} :
       \E repar \in {construct_reparametrization(
                         n_times, n_points, vertical_norm, space_deriv_norm)} :
          Call("construct_reparametrization",
               [n_times |-> n_times, n_points |-> n_points,
                vertical_norm |-> vertical_norm,
                space_deriv_norm |-> space_deriv_norm],
               Returned(repar, <<>>))
    /\ path_fn' = NoPath

CallHorizontalGeodesic ==
    /\ pc = "ready"
    /\ \E initial_curve, end_curve \in HgCurves(ambient) :
       \E threshold \in Thresholds : \E behaviour \in Behaviours :
       \E fn \in {horizontal_geodesic(initial_curve, end_curve, threshold,
                                       behaviour)} :
          /\ pc' = "returned"
          /\ op' = "horizontal_geodesic"
          /\ args' = [initial_curve |-> initial_curve, end_curve |-> end_curve,
                      threshold |-> threshold]
          /\ ret' = Returned(fn, <<"CubicSpline">>)
          /\ hg' = fn
    /\ path_fn' = NoPath
    /\ UNCHANGED <<ambient, proj_st, caller_srv, chain>>

\* the caller evaluates the callable it holds; it keeps what the evaluation
\* before gave it
CallHorizontalPath ==
    /\ pc = "returned"
    /\ hg.defined
    /\ \E t \in TimeGrids :
          /\ pc' = "horizontal_path"
          /\ op' = "horizontal_path"
          /\ args' = [t |-> t]
          /\ ret' = Running(<<>>)
          /\ hg' = [horizontal_path_locals(hg, t) EXCEPT
                        !.prev = IF op = "horizontal_path"
                                 THEN [defined |-> TRUE, t |-> args.t,
                                       printed |-> hg.printed, ret |-> ret]
                                 ELSE NoPrev]
    /\ UNCHANGED <<ambient, path_fn, proj_st, caller_srv, chain>>

\* one iteration of the while loop of horizontal_path: geodesic refuses an
\* ambient space that is not Euclidean, and the solve of
\* split_horizontal_vertical a singular system
HorizontalPathIter ==
    /\ pc = "horizontal_path"
    /\ horizontal_loop_condition(hg.gap, hg.threshold, hg.counter)
    /\ IF ~IsEuclideanMetric
       THEN /\ pc' = "returned"
            /\ ret' = Raised("AssertionError", ret.steps)
            /\ hg' = [hg EXCEPT !.running = FALSE]
       ELSE \E outcome \in {IterationOutcome(hg)} :
            IF outcome.err # "none"
            THEN /\ pc' = "returned"
                 /\ ret' = Raised(outcome.err, ret.steps \o <<"geodesic">>)
                 /\ hg' = [hg EXCEPT !.running = FALSE]
            ELSE \E repar \in {iteration_repar(hg, outcome)} :
                 IF invert_reparametrization_raises(repar.rep)
                 THEN /\ pc' = "returned"
                      /\ ret' = Raised("ValueError",
                                       ret.steps \o <<"geodesic",
                                                      "CubicSpline">>)
                      /\ hg' = [hg EXCEPT !.running = FALSE,
                                          !.repar = repar]
                 ELSE /\ hg' = horizontal_path_iteration(hg, outcome.gap,
                                                         repar)
                      /\ UNCHANGED <<pc, ret>>
    /\ UNCHANGED <<ambient, op, args, path_fn, proj_st, caller_srv, chain>>

\* the loop is left: return horizontal_path, a local variable that is bound
\* only when an iteration has run
HorizontalPathReturn ==
    /\ pc = "horizontal_path"
    /\ ~horizontal_loop_condition(hg.gap, hg.threshold, hg.counter)
    /\ pc' = "returned"
    /\ ret' = IF ~hg.horizontal_path.bound
              THEN Raised("UnboundLocalError", ret.steps)
              ELSE Returned(hg.horizontal_path, ret.steps)
    /\ hg' = [hg EXCEPT !.running = FALSE]
    /\ UNCHANGED <<ambient, op, args, path_fn, proj_st, caller_srv, chain>>

\* the srv arrays and the curves given to the projection
SrvVectors == { <<One, 0>>, <<0, One>>, <<-One, 0>>, <<0, 0>>, <<-One, -One>> }

SrvInputs == UNION { [1..n -> SrvVectors] : n \in Lengths }

ProjCurves(amb) ==
    FewCurves(3, amb)
    \cup { c \in Curves(4, amb) : c[1] = Embed(<<0, 0>>, amb) /\ c[2] = Embed(<<One, 0>>, amb) }

Atols == {0, Scale \div 10}

MaxIters == 0..MaxIterBound

\* project_srv from its first statement to the loop
EnterProjectSrv(srv, atol, max_iter, from_project, curve, steps) ==
    IF ~is_planar_metric
    THEN /\ pc' = "returned"
         /\ ret' = Raised("AssertionError", steps)
         /\ proj_st' = NoProj
         /\ caller_srv' = srv
    ELSE /\ pc' = "project_srv"
         /\ ret' = Running(steps)
         /\ proj_st' = project_srv_locals(srv, atol, max_iter, from_project, curve)
         /\ caller_srv' = srv

CallProjectSrv ==
    /\ pc = "ready"
    /\ \E srv \in SrvInputs : \E atol \in Atols : \E max_iter \in MaxIters :
          /\ op' = "project_srv"
          /\ args' = [srv |-> srv, atol |-> atol, max_iter |-> max_iter]
          /\ EnterProjectSrv(srv, atol, max_iter, FALSE, None, <<>>)
    /\ UNCHANGED <<ambient, path_fn, chain, hg>>

\* project: the check, the srv representation, then project_srv
EnterProject(curve, atol, max_iter) ==
    IF ~is_planar_manifold
    THEN /\ pc' = "returned"
         /\ ret' = Raised("AssertionError", <<>>)
         /\ proj_st' = NoProj
         /\ caller_srv' = None
    ELSE EnterProjectSrv(square_root_velocity(ToBatch(curve))[1], atol,
                         max_iter, TRUE, curve, <<"square_root_velocity">>)

CallProject ==
    /\ pc = "ready"
    /\ \E curve \in ProjCurves(ambient) : \E atol \in Atols :
       \E max_iter \in MaxIters :
          /\ op' = "project"
          /\ args' = [curve |-> curve, atol |-> atol, max_iter |-> max_iter]
          /\ EnterProject(curve, atol, max_iter)
    /\ UNCHANGED <<ambient, path_fn, chain, hg>>

\* one iteration of the while loop of project_srv
ProjectSrvIter ==
    /\ pc = "project_srv"
    /\ loop_condition(proj_st.criteria, proj_st.atol, proj_st.nb_iter,
                      proj_st.max_iter)
    /\ \E g_jacobian \in {g_jacobian_of(proj_st.proj)} :
          IF determinant(g_jacobian) = 0
          THEN /\ pc' = "returned"
               /\ ret' = Raised("LinAlgError", ret.steps)
               /\ UNCHANGED <<proj_st, caller_srv>>
          ELSE \E beta \in {MatVec(linalg_inv(g_jacobian), proj_st.residual)} :
               \E basis \in {basis_of(
                       gradient(proj_st.proj, proj_st.proj_norms, 1),
                       gradient(proj_st.proj, proj_st.proj_norms, 2))} :
               \E moved \in {updated_in_place(proj_st.proj, beta, basis)} :
                  /\ proj_st' = after_update(proj_st, moved)
                  /\ caller_srv' = IF proj_st.aliased THEN moved ELSE caller_srv
                  /\ UNCHANGED <<pc, ret>>
    /\ UNCHANGED <<ambient, op, args, path_fn, chain, hg>>

\* the loop is left: project_srv returns proj, and project the curve of it
ProjectSrvReturn ==
    /\ pc = "project_srv"
    /\ ~loop_condition(proj_st.criteria, proj_st.atol, proj_st.nb_iter,
                       proj_st.max_iter)
    /\ pc' = "returned"
    /\ ret' = IF proj_st.from_project
              THEN Returned(square_root_velocity_inverse(proj_st.proj,
                                                         proj_st.curve[1]).val,
                            ret.steps \o <<"project_srv",
                                           "square_root_velocity_inverse">>)
              ELSE Returned(proj_st.proj, ret.steps)
    /\ UNCHANGED <<ambient, op, args, path_fn, proj_st, caller_srv, chain, hg>>

\* the projection applied to its own output, with the same atol and max_iter
CallProjectSrvAgain ==
    /\ pc = "returned"
    /\ op = "project_srv"
    /\ ret.status = "ok"
    /\ ~chain.active
    /\ chain' = [active |-> TRUE, out |-> ret.val, nb_iter |-> proj_st.nb_iter]
    /\ args' = [srv |-> ret.val, atol |-> args.atol, max_iter |-> args.max_iter]
    /\ EnterProjectSrv(ret.val, args.atol, args.max_iter, FALSE, None, <<>>)
    /\ UNCHANGED <<ambient, op, path_fn, hg>>

CallProjectAgain ==
    /\ pc = "returned"
    /\ op = "project"
    /\ ret.status = "ok"
    /\ ~chain.active
    /\ chain' = [active |-> TRUE, out |-> ret.val, nb_iter |-> proj_st.nb_iter]
    /\ args' = [curve |-> ret.val, atol |-> args.atol, max_iter |-> args.max_iter]
    /\ EnterProject(ret.val, args.atol, args.max_iter)
    /\ UNCHANGED <<ambient, op, path_fn, hg>>

Next ==
    \/ CallSquareRootVelocity
    \/ CallSquareRootVelocityInverse
    \/ CallInverseOfSquareRootVelocity
    \/ CallDSquareRootVelocity
    \/ CallInnerProduct
    \/ CallExp
    \/ CallLog
    \/ CallLogOfExp
    \/ CallExpOfLog
    \/ CallGeodesic
    \/ CallPath
    \/ CallDist
    \/ CallSplitHorizontalVertical
    \/ CallConstructReparametrization
    \/ CallSpaceDerivative
    \/ CallHorizontalGeodesic
    \/ CallHorizontalPath
    \/ HorizontalPathIter
    \/ HorizontalPathReturn
    \/ CallProjectSrv
    \/ CallProject
    \/ ProjectSrvIter
    \/ ProjectSrvReturn
    \/ CallProjectSrvAgain
    \/ CallProjectAgain
    \/ Release

Spec == Init /\ [][Next]_vars

-----------------------------------------------------------------------------
(* Properties *)

FlatOps ==
    {"square_root_velocity_inverse", "d_square_root_velocity", "inner_product",
     "exp", "log", "geodesic", "dist"}

ProjectOps == {"project", "project_srv"}

IsPlanar == IsEuclidean /\ IsEuclideanMetric /\ ambient.dim = 2

\* the norm of the closure residual of an srv array, computed from the array
ResidualNorm(srv) == euclidean_norm(g_criterion(srv, ambient_norms(srv)))

\* C1: on a metric that is not the flat Euclidean one, each of the inverse
\* transform, the differential, the inner product, exp, log, geodesic and dist
\* fails with the error of the metric check, and nothing is computed before it.
C1_FlatMetricCheckedFirst ==
    (pc = "returned" /\ op \in FlatOps /\ ~IsEuclideanMetric)
        => /\ ret.status = "error"
           /\ ret.err = "AssertionError"
           /\ ret.steps = <<>>
           /\ ret.val = None
           /\ ~path_fn.defined

C1_Witness ==
    /\ pc = "returned"
    /\ op = "exp"
    /\ ~IsEuclideanMetric
    /\ ret.err = "AssertionError"

\* C2: unless the ambient space is Euclidean of dimension 2, project and
\* project_srv fail with the error of the planarity check: the loop is never
\* entered and no step is taken before the failure.
C2_PlanarityCheckedFirst ==
    (op \in ProjectOps /\ ~IsPlanar)
        => /\ pc = "returned"
           /\ ret.status = "error"
           /\ ret.err = "AssertionError"
           /\ ret.steps = <<>>
           /\ proj_st = NoProj

C2_Witness ==
    /\ pc = "returned"
    /\ op = "project"
    /\ IsEuclidean
    /\ ambient.dim = 3
    /\ ret.err = "AssertionError"

\* C3: geodesic called with neither an end curve nor an initial tangent vector
\* fails at the call (with ValueError on a flat metric) and hands no path to the
\* caller, so no evaluation of a path can be where the error shows.
C3_NeitherFailsAtCall ==
    (pc = "returned" /\ op = "geodesic"
     /\ args.end_curve = None /\ args.initial_tangent_vec = None)
        => /\ ret.status = "error"
           /\ ret.val = None
           /\ ~path_fn.defined
           /\ ~ENABLED CallPath
           /\ IsEuclideanMetric => ret.err = "ValueError" /\ ret.steps = <<>>

C3_Witness ==
    /\ pc = "returned"
    /\ op = "geodesic"
    /\ IsEuclideanMetric
    /\ args.end_curve = None
    /\ args.initial_tangent_vec = None
    /\ ret.err = "ValueError"

\* two tangent vectors agree within the backend's tolerance, entry by entry
WithinTolerance(shooting, supplied) ==
    \A i \in DOMAIN shooting : \A c \in DOMAIN shooting[i] :
        /\ shooting[i][c] # NaN
        /\ supplied[i][c] # NaN
        /\ FAbs(shooting[i][c] - supplied[i][c])
              <= gs_atol + (gs_rtol * FAbs(supplied[i][c])) \div Scale

BothGiven ==
    /\ pc = "returned"
    /\ op = "geodesic"
    /\ IsEuclideanMetric
    /\ args.end_curve # None
    /\ args.initial_tangent_vec # None

ShootingVec == log(args.end_curve, args.initial_curve).val[1]

\* C4: with both an end curve and an initial tangent vector, geodesic fails
\* with RuntimeError exactly when the supplied vector is not within tolerance of
\* log(end_curve, initial_curve); otherwise the path it returns starts from the
\* initial curve with that logarithm, not the supplied vector, as velocity.
C4_BothGivenCompared ==
    BothGiven
        => /\ (ret.status = "error")
                <=> ~WithinTolerance(ShootingVec, args.initial_tangent_vec)
           /\ ret.status = "error" => ret.err = "RuntimeError"
           /\ ret.status = "ok"
                => /\ path_fn = ret.val
                   /\ path_fn.initial_curve = <<args.initial_curve>>
                   /\ path_fn.initial_tangent_vec = <<ShootingVec>>

C4_Witness ==
    /\ BothGiven
    /\ IsFiniteCurve(ShootingVec)
    /\ ret.err = "RuntimeError"

\* C5 as stated: geodesic refuses both an end curve and an initial tangent
\* vector, as it refuses neither.
C5_BothGivenRefused ==
    BothGiven => ret.status = "error"

\* C5: geodesic fails at once with ValueError exactly when neither an end curve
\* nor an initial tangent vector is given; when both are given it first takes
\* log(end_curve, initial_curve), and then either returns a path or fails with
\* RuntimeError because the supplied vector is another one.
C5_OnlyNeitherIsInvalid ==
    (pc = "returned" /\ op = "geodesic" /\ IsEuclideanMetric)
        => /\ (ret.err = "ValueError")
                <=> (args.end_curve = None /\ args.initial_tangent_vec = None)
           /\ ret.err = "ValueError" => ret.steps = <<>>
           /\ BothGiven
                => /\ ret.steps = <<"log">>
                   /\ \/ ret.status = "ok" /\ path_fn.defined
                      \/ /\ ret.err = "RuntimeError"
                         /\ ~WithinTolerance(ShootingVec,
                                             args.initial_tangent_vec)

C5_Witness ==
    /\ BothGiven
    /\ ret.status = "ok"
    /\ path_fn.defined
    /\ args.initial_tangent_vec # ShootingVec

\* C6: dist fails whenever its two arguments have different shapes, before any
\* square root velocity representation or distance is computed (on a flat
\* metric the error is the ValueError of the shape comparison); with equal
\* shapes it raises no ValueError, and on a flat metric it returns.
C6_ShapesComparedFirst ==
    (pc = "returned" /\ op = "dist")
        => /\ Shape(args.point_a) # Shape(args.point_b)
                => /\ ret.status = "error"
                   /\ ret.steps = <<>>
                   /\ IsEuclideanMetric => ret.err = "ValueError"
           /\ Shape(args.point_a) = Shape(args.point_b)
                => /\ ret.err # "ValueError"
                   /\ IsEuclideanMetric
                        => /\ ret.status = "ok"
                           /\ Head(ret.steps) = "square_root_velocity"

C6_Witness ==
    /\ pc = "returned"
    /\ op = "dist"
    /\ IsEuclideanMetric
    /\ Len(args.point_a) # Len(args.point_b)
    /\ ret.err = "ValueError"

C7_Bounded ==
    proj_st.running => proj_st.nb_iter <= proj_st.max_iter

C7_SoftStop ==
    (pc = "returned" /\ op \in ProjectOps /\ proj_st.running
     /\ proj_st.nb_iter = proj_st.max_iter
     /\ FGe(ResidualNorm(proj_st.proj), proj_st.atol))
        => /\ ret.status = "ok"
           /\ op = "project_srv" => ret.val = proj_st.proj

\* a step taken inside project_srv is one more iteration, counted, or the end
\* of the call; with the counter at max_iter it is the return of proj
C7_LoopStep ==
    pc = "project_srv"
        => /\ pc' = "project_srv" => proj_st'.nb_iter = proj_st.nb_iter + 1
           /\ proj_st.nb_iter >= proj_st.max_iter
                => /\ pc' = "returned"
                   /\ ret'.status = "ok"
                   /\ proj_st' = proj_st

\* C7: the loop of project_srv runs at most max_iter iterations: every step
\* of the loop raises the counter and at max_iter the only step is the return;
\* when the residual norm is still at least atol after max_iter iterations the
\* current projection is returned and nothing is raised.
C7_AtMostMaxIter ==
    /\ [](C7_Bounded /\ C7_SoftStop)
    /\ [][C7_LoopStep]_vars

C7_Witness ==
    /\ pc = "returned"
    /\ op = "project_srv"
    /\ ret.status = "ok"
    /\ proj_st.max_iter >= 1
    /\ proj_st.nb_iter = proj_st.max_iter
    /\ proj_st.atol > 0
    /\ FGe(ResidualNorm(ret.val), proj_st.atol)

ProjectSrvReturned ==
    /\ pc = "returned"
    /\ op = "project_srv"
    /\ ret.status = "ok"

\* C8 as stated: when project_srv returns, the residual norm of what it
\* returns is strictly below atol, or nb_iter equals max_iter.
C8_ConvergedOrExhausted ==
    ProjectSrvReturned
        => \/ FLt(ResidualNorm(ret.val), proj_st.atol)
           \/ proj_st.nb_iter = proj_st.max_iter

\* C8: when project_srv returns, the residual norm of what it returns is not a
\* number that is at least atol (it is strictly below atol, or it is not a
\* finite number), or nb_iter equals max_iter.
C8_NotAboveOrExhausted ==
    ProjectSrvReturned
        => \/ ~FGe(ResidualNorm(ret.val), proj_st.atol)
           \/ proj_st.nb_iter = proj_st.max_iter

C8_Witness ==
    /\ ProjectSrvReturned
    /\ ~chain.active
    /\ proj_st.nb_iter >= 1
    /\ proj_st.nb_iter < proj_st.max_iter
    /\ FLt(ResidualNorm(ret.val), proj_st.atol)

\* the largest entry of |a - b|, for two finite arrays of one shape
RECURSIVE MaxOf(_)
MaxOf(s) ==
    IF s = <<>> THEN 0
    ELSE LET m == MaxOf(Tail(s)) IN IF Head(s) > m THEN Head(s) ELSE m

MaxAbsDiff(a, b) ==
    MaxOf([i \in DOMAIN a |->
              MaxOf([c \in DOMAIN a[i] |-> FAbs(a[i][c] - b[i][c])])])

SecondPassReturned ==
    /\ ProjectSrvReturned
    /\ chain.active

SegmentSrv(p, q, n) ==
    LET velocity == VScale(FInt(n - 1), VSub(q, p))
    IN  VScale(FDiv(One, FSqrt(euclidean_norm(velocity))), velocity)

\* C10: for a batch of curves, square_root_velocity returns for every curve
\* its n_sampling_points - 1 own segment vectors and nothing of the difference
\* between the last point of a curve and the first point of the next one: the
\* result for a curve is what the transform gives for that curve alone.
C10_NoLeakBetweenCurves ==
    (pc = "returned" /\ op = "square_root_velocity")
        => LET batch == args.curve
               n == Len(batch[1])
           IN  /\ Len(ret.val) = Len(batch)
               /\ \A k \in DOMAIN batch :
                    /\ Len(ret.val[k]) = n - 1
                    /\ ret.val[k] = square_root_velocity(<<batch[k]>>)[1]
                    /\ \A j \in 1..(n - 1) :
                          ret.val[k][j]
                             = SegmentSrv(batch[k][j], batch[k][j + 1], n)

C10_Witness ==
    /\ pc = "returned"
    /\ op = "square_root_velocity"
    /\ Len(args.curve) = 2
    /\ Len(args.curve[1]) = 3
    /\ args.curve[1][3] # args.curve[2][1]
    /\ IsFiniteCurve(ret.val[1])
    /\ IsFiniteCurve(ret.val[2])

\* every entry of a is a number within tol of the entry of b
CloseCurves(a, b, tol) ==
    /\ Len(a) = Len(b)
    /\ \A i \in DOMAIN a : \A c \in DOMAIN b[i] :
          /\ a[i][c] # NaN
          /\ b[i][c] # NaN
          /\ FAbs(a[i][c] - b[i][c]) <= tol

\* no two consecutive points of the curve are equal
DistinctConsecutive(curve) ==
    \A i \in 1..(Len(curve) - 1) : curve[i] # curve[i + 1]

\* the tolerance of the comparisons of curves: one hundredth
Tolerance == Scale \div 100

\* C11: for a curve whose consecutive points are all distinct, the inverse
\* transform of its square root velocity representation, started at its first
\* point, returns the curve within tolerance, and its first point exactly.
C11_RoundTrip ==
    (op = "srv_round_trip" /\ DistinctConsecutive(args.curve))
        => /\ ret.status = "ok"
           /\ CloseCurves(ret.val, args.curve, Tolerance)
           /\ ret.val[1] = args.curve[1]

C11_Witness ==
    /\ op = "srv_round_trip"
    /\ Len(args.curve) = 3
    /\ DistinctConsecutive(args.curve)
    /\ args.curve[3] # args.curve[1]
    /\ ret.status = "ok"

\* the largest absolute value of the entries of an array
MaxAbsEntry(a) ==
    MaxOf([i \in DOMAIN a |-> MaxOf([c \in DOMAIN a[i] |-> FAbs(a[i][c])])])

\* after exp and log, which take more roundings: every entry of a is a number
\* within a tenth of the entry of b, a tenth being taken of 1 plus the
\* largest entries of b and of the tangent vector v that was on the way
CloseAfterExpLog(a, b, v) ==
    /\ Len(a) = Len(b)
    /\ \A i \in DOMAIN a : \A c \in DOMAIN b[i] :
          /\ a[i][c] # NaN
          /\ b[i][c] # NaN
          /\ FAbs(a[i][c] - b[i][c])
                <= (Scale + MaxAbsEntry(b) + MaxAbsEntry(v)) \div 10

\* C12 as stated: at a base curve with nonzero segment speeds, log after exp
\* gives back every tangent field and exp after log gives back every curve.
C12_ExpLogInverse ==
    /\ (op = "log_exp" /\ DistinctConsecutive(args.base_point))
          => /\ ret.status = "ok"
             /\ CloseAfterExpLog(ret.val[1], args.tangent_vec, args.tangent_vec)
    /\ (op = "exp_log" /\ DistinctConsecutive(args.base_point))
          => /\ ret.status = "ok"
             /\ CloseAfterExpLog(ret.val[1], args.point, args.tangent_vec)

\* every segment of the curve is at least one tenth long
ClearSegments(curve) ==
    \A i \in 1..(Len(curve) - 1) :
        FGe(euclidean_norm(VSub(curve[i + 1], curve[i])), Scale \div 10)

\* C12: at a base curve c with nonzero segment speeds, log(exp(v, c), c) is v
\* within tolerance when the segments of the curve exp(v, c) are clear of
\* length zero, and exp(log(p, c), c) is p within tolerance when the segments
\* of p are; with a segment of length zero in exp(v, c) or in p the result
\* has entries that are not numbers.
C12_ExpLogInverseOnRegular ==
    /\ (op = "log_exp" /\ DistinctConsecutive(args.base_point))
          => /\ ret.status = "ok"
             /\ ClearSegments(args.point)
                  => CloseAfterExpLog(ret.val[1], args.tangent_vec, args.tangent_vec)
             /\ ~DistinctConsecutive(args.point)
                  => ~IsFiniteCurve(ret.val[1])
    /\ (op = "exp_log" /\ DistinctConsecutive(args.base_point))
          => /\ ret.status = "ok"
             /\ ClearSegments(args.point)
                  => CloseAfterExpLog(ret.val[1], args.point, args.tangent_vec)
             /\ ~DistinctConsecutive(args.point)
                  => ~IsFiniteCurve(ret.val[1])

C12_Witness ==
    /\ op = "log_exp"
    /\ Len(args.base_point) = 3
    /\ DistinctConsecutive(args.base_point)
    /\ ClearSegments(args.point)
    /\ args.tangent_vec[3] # args.tangent_vec[2]
    /\ args.tangent_vec[2] # args.tangent_vec[1]
    /\ ret.status = "ok"

\* the curve of the path at the i-th time of the call just returned
CurveAtTime(i) == ret.val[i][1]

\* the path just evaluated was made by geodesic from an end curve
PathToEndCurve ==
    /\ pc = "returned"
    /\ op = "path"
    /\ args.end_curve # None

\* C13 as stated: for every pair of curves, the path of
\* geodesic(initial_curve, end_curve) is initial_curve at t=0 and end_curve at
\* t=1.
C13_PathEndpoints ==
    PathToEndCurve =>
        /\ ret.status = "ok"
        /\ \A i \in DOMAIN args.t :
              /\ args.t[i] = 0 =>
                    CloseAfterExpLog(CurveAtTime(i), path_fn.initial_curve[1],
                                     path_fn.initial_tangent_vec[1])
              /\ args.t[i] = One =>
                    CloseAfterExpLog(CurveAtTime(i), args.end_curve,
                                     path_fn.initial_tangent_vec[1])

\* C13: when initial_curve and end_curve both have distinct consecutive
\* points, the path of geodesic(initial_curve, end_curve) is initial_curve at
\* t=0 and end_curve at t=1; when one of them repeats a point, the path
\* returns without error and its curves at t=0 and at t=1 have entries that
\* are not numbers.
C13_PathEndpointsOnRegular ==
    PathToEndCurve =>
        /\ ret.status = "ok"
        /\ \A i \in DOMAIN args.t :
              IF DistinctConsecutive(path_fn.initial_curve[1])
                 /\ DistinctConsecutive(args.end_curve)
              THEN /\ args.t[i] = 0 =>
                         CloseAfterExpLog(CurveAtTime(i),
                                          path_fn.initial_curve[1],
                                          path_fn.initial_tangent_vec[1])
                   /\ args.t[i] = One =>
                         CloseAfterExpLog(CurveAtTime(i), args.end_curve,
                                          path_fn.initial_tangent_vec[1])
              ELSE args.t[i] \in {0, One} => ~IsFiniteCurve(CurveAtTime(i))

\* a path between two different curves without repeated points, evaluated at
\* t=0 and t=1 in one call
C13_Witness ==
    /\ PathToEndCurve
    /\ args.t = <<0, One>>
    /\ Len(args.end_curve) = 3
    /\ DistinctConsecutive(path_fn.initial_curve[1])
    /\ DistinctConsecutive(args.end_curve)
    /\ ~CloseAfterExpLog(args.end_curve, path_fn.initial_curve[1],
                         path_fn.initial_tangent_vec[1])
    /\ ret.status = "ok"

\* dist has returned a value for two curves of one shape
DistReturned ==
    /\ pc = "returned"
    /\ op = "dist"
    /\ ret.status = "ok"

\* C14 as stated: for all curves a and b of equal shape, dist(a, b) is
\* dist(b, a), and dist(a, a) is 0.
C14_SymmetricAndZero ==
    DistReturned =>
        /\ ret.val # NaN
        /\ ret.val = dist(args.point_b, args.point_a).val
        /\ args.point_a = args.point_b => ret.val = 0

\* C14: for curves a and b of equal shape that both have distinct consecutive
\* points, dist(a, b) is a number equal to dist(b, a), and dist(a, a) is 0;
\* when a or b repeats a point, dist(a, b) is not a number, also when a is b.
C14_SymmetricAndZeroOnRegular ==
    DistReturned =>
        IF DistinctConsecutive(args.point_a) /\ DistinctConsecutive(args.point_b)
        THEN /\ ret.val # NaN
             /\ dist(args.point_b, args.point_a).val # NaN
             /\ ret.val = dist(args.point_b, args.point_a).val
             /\ args.point_a = args.point_b => ret.val = 0
        ELSE ret.val = NaN

\* a positive distance between two different curves without repeated points
C14_Witness ==
    /\ DistReturned
    /\ Len(args.point_a) = 3
    /\ DistinctConsecutive(args.point_a)
    /\ DistinctConsecutive(args.point_b)
    /\ args.point_a[1] # args.point_b[1]
    /\ args.point_a[3] # args.point_b[3]
    /\ ret.val # NaN
    /\ ret.val > 0

\* split_horizontal_vertical has returned its three arrays
SplitReturned ==
    /\ pc = "returned"
    /\ op = "split_horizontal_vertical"
    /\ ret.status = "ok"

tangent_vec_hor == ret.val[1]

tangent_vec_ver == ret.val[2]

vertical_norm == ret.val[3]

InteriorPoints == 2..(Len(args.curve) - 1)

\* the pointwise ambient inner product of the two parts at sampling point i
HorVerProduct(i) == euclidean_inner_product(tangent_vec_hor[i], tangent_vec_ver[i])

\* u is a multiple of d, within the tolerance: every 2 x 2 minor vanishes
Parallel(u, d) ==
    \A c1, c2 \in DOMAIN u :
        /\ u[c1] # NaN
        /\ FAbs(FSub(FMul(u[c1], d[c2]), FMul(u[c2], d[c1]))) <= Tolerance

\* the central difference of the curve at an interior sampling point is not zero
ClearTangents ==
    \A i \in InteriorPoints : args.curve[i + 1] # args.curve[i - 1]

C17_CallerSrvUnmodified ==
    (pc = "returned" /\ op = "project_srv" /\ ret.status = "ok")
        => caller_srv = args.srv

\* the first iteration of project_srv writes into the caller's array: once
\* one iteration has run the caller's srv is the array moved by that
\* iteration, and it is the caller's own only when no iteration ran
C17_FirstIterationWritesCallerSrv ==
    (pc = "returned" /\ op = "project_srv" /\ ret.status = "ok")
        => /\ proj_st.nb_iter = 0 => caller_srv = args.srv
           /\ proj_st.nb_iter >= 1 =>
                 caller_srv = updated_in_place(
                                  args.srv,
                                  MatVec(linalg_inv(g_jacobian_of(args.srv)),
                                         g_criterion(args.srv,
                                                     ambient_norms(args.srv))),
                                  basis_of(gradient(args.srv,
                                                    ambient_norms(args.srv), 1),
                                           gradient(args.srv,
                                                    ambient_norms(args.srv), 2)))

\* project_srv has returned after an iteration that changed the caller's array
C17_Witness ==
    /\ pc = "returned"
    /\ op = "project_srv"
    /\ ret.status = "ok"
    /\ ~chain.active
    /\ proj_st.nb_iter >= 1
    /\ IsFiniteCurve(caller_srv)
    /\ caller_srv # args.srv

\* the path has been evaluated
PathReturned ==
    /\ pc = "returned"
    /\ op = "path"

\* one curve for each time, the i-th being what the path gives for the single
\* time t[i], which is exp of t[i] times the captured tangent vector at the
\* captured curve
C19_EachSampleAlone ==
    PathReturned =>
        /\ ret.status = "ok"
        /\ Len(ret.val) = Len(args.t)
        /\ ret = path(path_fn, args.t)
        /\ \A i \in DOMAIN args.t :
              /\ ret.val[i] = path(path_fn, <<args.t[i]>>).val[1]
              /\ ret.val[i] = exp(CScale(args.t[i], path_fn.initial_tangent_vec[1]),
                                  path_fn.initial_curve[1]).val

\* an evaluation of the path leaves the captured curve and vector as they were
C19_CapturedKept ==
    (path_fn.defined /\ pc' = "returned") => path_fn' = path_fn

\* C19: the path returned by geodesic gives, for a sequence of L times, L
\* curves, the i-th depending only on t[i] and on the captured initial curve
\* and tangent vector; evaluating it never changes what it captured, so the
\* same times give the same curves after any other evaluations.
C19_PathStateless ==
    /\ []C19_EachSampleAlone
    /\ [][C19_CapturedKept]_vars

\* the path evaluated at three times, with different curves for different times
C19_Witness ==
    /\ PathReturned
    /\ Len(args.t) = 3
    /\ args.t[1] # args.t[3]
    /\ ret.status = "ok"
    /\ IsFiniteCurve(ret.val[1][1])
    /\ ret.val[1] # ret.val[3]

\* C20: square_root_velocity does not catch a segment of length zero: for a
\* curve with two equal consecutive points it returns without error, every
\* coordinate of the entry of that segment is not a number, and the entries of
\* the other segments are the numbers they are without the repeated point.
C20_ZeroSegmentNotCaught ==
    (pc = "returned" /\ op = "square_root_velocity")
        => /\ ret.status = "ok"
           /\ \A k \in DOMAIN args.curve :
              \A j \in 1..(Len(args.curve[k]) - 1) :
                 IF args.curve[k][j] = args.curve[k][j + 1]
                 THEN \A c \in DOMAIN ret.val[k][j] : ret.val[k][j][c] = NaN
                 ELSE /\ IsFiniteVec(ret.val[k][j])
                      /\ ret.val[k][j]
                            = SegmentSrv(args.curve[k][j], args.curve[k][j + 1],
                                         Len(args.curve[k]))

\* a curve whose first segment has length zero and whose second has not
C20_Witness ==
    /\ pc = "returned"
    /\ op = "square_root_velocity"
    /\ ret.status = "ok"
    /\ Len(args.curve[1]) = 3
    /\ args.curve[1][1] = args.curve[1][2]
    /\ args.curve[1][2] # args.curve[1][3]
    /\ ~IsFiniteVec(ret.val[1][1])
    /\ IsFiniteVec(ret.val[1][2])

\* the callable of horizontal_geodesic has ended, by a return or by an error
HorizontalPathEnded ==
    /\ pc = "returned"
    /\ op = "horizontal_path"

\* the loop of horizontal_path is running with a gap above the threshold
AboveThreshold ==
    /\ pc = "horizontal_path"
    /\ FLt(hg.threshold, hg.gap)

\* every iteration of the callable ends and finds a gap above the threshold
EveryGapAbove ==
    /\ IsEuclideanMetric
    /\ \A k \in DOMAIN hg.behaviour :
          /\ hg.behaviour[k].err = "none"
          /\ FLt(hg.threshold, hg.behaviour[k].gap)

\* C16 as stated, the part on the calls that end: the call ends only when
\* some iteration of the loop has produced a gap that is at most the
\* threshold. It is read for the calls in which the solve of no iteration
\* fails and every gap found is a number.
C16_EndsOnlyBelowThreshold ==
    (HorizontalPathEnded /\ ret.err \notin {"LinAlgError", "ValueError"}
     /\ hg.gap # NaN) =>
        /\ hg.counter >= 1
        /\ FLe(hg.gap, hg.threshold)

\* how a call ends: with the path of the last iteration, after at least one
\* iteration, the last gap being not above the threshold (at most the
\* threshold, or not a number); with UnboundLocalError when the threshold is
\* 1 or more, no iteration having run; or with the error raised inside an
\* iteration
C16_HowTheCallEnds ==
    HorizontalPathEnded =>
        /\ ret.status \in {"ok", "error"}
        /\ ret.status = "ok" =>
              /\ hg.counter >= 1
              /\ ~FLt(hg.threshold, hg.gap)
              /\ ret.val = hg.horizontal_path
              /\ ret.val.bound
        /\ (ret.status = "error" /\ ret.err = "UnboundLocalError") =>
              /\ hg.counter = 0
              /\ hg.threshold >= One
        /\ (ret.status = "error" /\ ret.err # "UnboundLocalError") =>
              /\ FLt(hg.threshold, hg.gap)
              /\ ret.err \in {"AssertionError", "LinAlgError", "ValueError"}

\* no cap: while the gap is above the threshold the next step is one more
\* iteration or an error, whatever the counter; and when every iteration
\* finds a gap above the threshold, no step leaves the loop
C16_NoExitAboveThreshold ==
    AboveThreshold =>
        /\ pc' = "horizontal_path" \/ ret'.status = "error"
        /\ EveryGapAbove => pc' = "horizontal_path"

\* C16: the outer loop of the callable returned by horizontal_geodesic has no
\* iteration cap: it goes on as long as the gap is above the threshold and
\* never ends when every iteration finds such a gap. The call ends when an
\* iteration produces a gap that is not above the threshold, when an
\* iteration raises an error, or at once with UnboundLocalError when the
\* threshold is 1 or more.
C16_NoIterationCap ==
    /\ []C16_HowTheCallEnds
    /\ [][C16_NoExitAboveThreshold]_vars

\* the loop still running after MaxOuter iterations with the gap above the
\* threshold
C16_Witness ==
    /\ AboveThreshold
    /\ EveryGapAbove
    /\ hg.counter = MaxOuter
    /\ Len(hg.printed) = MaxOuter

\* an invocation starts from the first statements of horizontal_path, whatever
\* the invocation before left
C18_FreshStart ==
    (pc = "returned" /\ pc' = "horizontal_path") =>
        /\ hg'.counter = 0
        /\ hg'.repar_inverse_end = <<>>
        /\ hg'.current_end_curve = Resampled(hg.end_curve, 0)
        /\ hg'.gap = One
        /\ ~hg'.horizontal_path.bound
        /\ hg'.printed = <<>>

\* no step changes what the callable captured
C18_CapturedKept ==
    (hg.defined /\ hg'.defined) =>
        /\ hg'.initial_curve = hg.initial_curve
        /\ hg'.end_curve = hg.end_curve
        /\ hg'.threshold = hg.threshold
        /\ hg'.behaviour = hg.behaviour

\* an invocation with the time grid of the invocation before it ends as that
\* one did, after the same iterations
C18_SameAgain ==
    (HorizontalPathEnded /\ hg.prev.defined /\ hg.prev.t = args.t) =>
        /\ hg.printed = hg.prev.printed
        /\ ret.status = hg.prev.ret.status
        /\ ret.err = hg.prev.ret.err
        /\ ret.status = "ok" => ret.val = hg.prev.ret.val

\* C18: no mutable state crosses the calls of the callable returned by
\* horizontal_geodesic: every invocation starts with counter = 0, an empty
\* list of inverse reparametrizations and a fresh copy of end_curve, two
\* successive invocations with the same time grid go through the same
\* iterations and return the same path, and initial_curve and end_curve are
\* never modified.
C18_NoStateAcrossCalls ==
    /\ []C18_SameAgain
    /\ [][C18_FreshStart /\ C18_CapturedKept]_vars

\* the second of two invocations with one time grid has returned a path after
\* two iterations or more
C18_Witness ==
    /\ HorizontalPathEnded
    /\ hg.prev.defined
    /\ hg.prev.t = args.t
    /\ ret.status = "ok"
    /\ hg.counter >= 2
    /\ hg.current_end_curve # Resampled(hg.end_curve, 0)

\* the callable of horizontal_geodesic has returned a path
HorizontalPathReturned ==
    /\ HorizontalPathEnded
    /\ ret.status = "ok"

\* what is returned: the path of the last iteration, which found a gap that
\* is at most the threshold, with the new candidate end curve as last slice
C21_LastIterationReturned ==
    HorizontalPathReturned =>
        /\ hg.counter >= 1
        /\ Len(hg.printed) >= 1
        /\ FLe(hg.gap, hg.threshold)
        /\ hg.printed[Len(hg.printed)] = hg.gap
        /\ ret.val.bound
        /\ ret.val = hg.horizontal_path
        /\ ret.val.t = args.t
        /\ ret.val.end_curve = hg.current_end_curve
        /\ ret.val.end_curve = Resampled(hg.end_curve, hg.counter)

\* the step that returns is taken with a gap at most the threshold and
\* returns the path as the last iteration left it
C21_ReturnStep ==
    (pc = "horizontal_path" /\ pc' = "returned" /\ ret'.status = "ok") =>
        /\ FLe(hg.gap, hg.threshold)
        /\ hg.horizontal_path.bound
        /\ ret'.val = hg.horizontal_path
        /\ hg'.gap = hg.gap

\* C21: the callable returned by horizontal_geodesic returns only after an
\* outer iteration whose gap is at most the threshold, and what it returns is
\* the horizontal path built in that last iteration, whose last slice is the
\* new candidate end curve.
C21_ReturnsAfterGapBelow ==
    /\ []C21_LastIterationReturned
    /\ [][C21_ReturnStep]_vars

\* a path returned after two iterations or more, the last one with a gap at
\* most the threshold and the one before with a gap above it
C21_Witness ==
    /\ HorizontalPathReturned
    /\ hg.counter >= 2
    /\ FLe(hg.gap, hg.threshold)
    /\ FLt(hg.threshold, hg.printed[1])

\* the callable of horizontal_geodesic was called with a threshold of 1 or more
ThresholdAtLeastOne ==
    /\ op = "horizontal_path"
    /\ FGe(hg.threshold, One)

\* a path is returned after one iteration at least, and with a threshold of 1
\* or more the call has ended without any iteration, path or printed gap, in
\* the error of reading the unbound local horizontal_path
C30_ReturnedAfterAnIteration ==
    /\ HorizontalPathReturned =>
           /\ hg.counter >= 1
           /\ Len(hg.repar_inverse_end) >= 1
           /\ ~FGe(hg.threshold, One)
    /\ (pc = "horizontal_path" /\ ThresholdAtLeastOne) =>
           /\ hg.gap = One
           /\ hg.counter = 0
           /\ ~hg.horizontal_path.bound
    /\ (HorizontalPathEnded /\ ThresholdAtLeastOne) =>
           /\ ret.status = "error"
           /\ ret.err = "UnboundLocalError"
           /\ hg.counter = 0
           /\ hg.printed = <<>>
           /\ ~hg.horizontal_path.bound

\* with a threshold of 1 or more the only step of the callable is the one
\* that ends it
C30_NoIterationStep ==
    (pc = "horizontal_path" /\ ThresholdAtLeastOne) =>
        /\ pc' = "returned"
        /\ ret'.status = "error"
        /\ hg'.counter = 0

\* C30: the callable returned by horizontal_geodesic runs one outer iteration
\* at least before it returns a path; with threshold >= 1 the initial gap of 1
\* does not enter the loop, no horizontal path is built and the call ends in
\* an error instead of returning a path.
C30_AtLeastOneIteration ==
    /\ []C30_ReturnedAfterAnIteration
    /\ [][C30_NoIterationStep]_vars

\* a call with threshold 2 that ended in the error without any iteration
C30_Witness ==
    /\ HorizontalPathEnded
    /\ hg.threshold = FInt(2)
    /\ ret.status = "error"
    /\ ret.err = "UnboundLocalError"
    /\ hg.counter = 0

\* the sequence in reverse order
Reversed(s) == [i \in 1..Len(s) |-> s[Len(s) + 1 - i]]

\* the callable of horizontal_geodesic has completed an outer iteration, and
\* fewer than MaxOuter of them
IterationCompleted ==
    /\ op = "horizontal_path"
    /\ hg.counter >= 1
    /\ hg.counter < MaxOuter

\* after the iteration with counter = k the list holds k + 1 entries, the
\* argument went through all of them, newest first, and the last slice is
\* the original end_curve evaluated at that argument
C27_ListAndArgument ==
    IterationCompleted =>
        /\ Len(hg.repar_inverse_end) = hg.counter
        /\ Len(hg.arg) = hg.counter
        /\ hg.arg = Reversed(hg.repar_inverse_end)
        /\ hg.arg[1] = hg.repar_inverse_end[Len(hg.repar_inverse_end)]
        /\ hg.horizontal_path.bound
        /\ hg.horizontal_path.end_curve = Resampled(hg.end_curve, Len(hg.arg))

\* an outer iteration appends one entry and keeps the earlier ones
C27_OneAppendedPerIteration ==
    (pc = "horizontal_path" /\ hg'.counter = hg.counter + 1) =>
        /\ Len(hg'.repar_inverse_end) = hg.counter + 1
        /\ SubSeq(hg'.repar_inverse_end, 1, hg.counter) = hg.repar_inverse_end
        /\ Len(hg'.arg) = hg.counter + 1
        /\ hg'.end_curve = hg.end_curve

\* C27: in outer iteration k of the callable of horizontal_geodesic (counter
\* = k, from 0), when the final time slice is built the list of inverse
\* reparametrizations holds k + 1 entries, one appended per iteration, and
\* the resampling argument is the uniform grid mapped through all of them,
\* newest first, before the spline of the original end_curve is evaluated.
C27_AccumulatedInverses ==
    /\ []C27_ListAndArgument
    /\ [][C27_OneAppendedPerIteration]_vars

\* two iterations completed: two different entries, the newer applied first
C27_Witness ==
    /\ IterationCompleted
    /\ hg.counter = 2
    /\ hg.repar_inverse_end[1] # hg.repar_inverse_end[2]
    /\ hg.arg = <<hg.repar_inverse_end[2], hg.repar_inverse_end[1]>>

\* the first and the last sample point
EndPoints == {1, Len(args.curve)}

\* no vertical part at the end points
C26_EndPointsNotMoved ==
    SplitReturned =>
        \A i \in EndPoints :
            /\ vertical_norm[i] = 0
            /\ tangent_vec_ver[i] = [c \in DOMAIN args.curve[i] |-> 0]
            /\ tangent_vec_hor[i] = args.tangent_vec[i]

\* C26 as stated: the end points carry no vertical part and the two parts
\* add up to tangent_vec at every sample point of every result
C26_SplitAddsUp ==
    /\ C26_EndPointsNotMoved
    /\ SplitReturned =>
           \A i \in DOMAIN args.curve :
               /\ IsFiniteVec(VAdd(tangent_vec_hor[i], tangent_vec_ver[i]))
               /\ VAdd(tangent_vec_hor[i], tangent_vec_ver[i])
                      = args.tangent_vec[i]

\* C26 (amended): in every result of split_horizontal_vertical the vertical
\* norm and the vertical field are zero at the first and the last sample
\* point, where the horizontal field is tangent_vec; the two fields add up to
\* tangent_vec at every sample point when the vertical field is finite, and
\* when an interior central difference curve[i + 1] - curve[i - 1] is zero
\* both fields are not finite at an interior point and do not add up.
C26_SplitAddsUpWhenFinite ==
    /\ C26_EndPointsNotMoved
    /\ SplitReturned /\ IsFiniteCurve(tangent_vec_ver) =>
           /\ IsFiniteCurve(tangent_vec_hor)
           /\ CAdd(tangent_vec_hor, tangent_vec_ver) = args.tangent_vec
    /\ SplitReturned /\ ClearTangents /\ DistinctConsecutive(args.curve) =>
           IsFiniteCurve(tangent_vec_ver)
    /\ SplitReturned /\ ~ClearTangents =>
           \E i \in InteriorPoints :
               /\ ~IsFiniteVec(tangent_vec_ver[i])
               /\ ~IsFiniteVec(VAdd(tangent_vec_hor[i], tangent_vec_ver[i]))

\* a split with a vertical part that is not zero at an interior point
C26_Witness ==
    /\ SplitReturned
    /\ ClearTangents
    /\ IsFiniteCurve(tangent_vec_ver)
    /\ \E i \in InteriorPoints : vertical_norm[i] # 0 /\ tangent_vec_ver[i] # tangent_vec_hor[i]
    /\ CAdd(tangent_vec_hor, tangent_vec_ver) = args.tangent_vec

\* project_srv is in its loop or has returned, after one iteration at least
ProjectSrvIterated ==
    /\ op = "project_srv"
    /\ pc \in {"project_srv", "returned"}
    /\ proj_st.running
    /\ proj_st.nb_iter >= 1

\* the SRV norm of the current projection is the SRV norm of the input
SameNormAsInput ==
    /\ srv_norm(proj_st.proj) # NaN
    /\ FAbs(FSub(srv_norm(proj_st.proj), srv_norm(args.srv))) <= Tolerance

\* C28 as stated: after every iteration, and in every returned projection,
\* the SRV norm of the projection equals the SRV norm of the input srv
C28_NormKept ==
    /\ ProjectSrvIterated => SameNormAsInput
    /\ ProjectSrvReturned =>
           /\ srv_norm(ret.val) # NaN
           /\ FAbs(FSub(srv_norm(ret.val), srv_norm(args.srv))) <= Tolerance

\* C28 (amended): the SRV norm of the input is kept in initial_norm; after
\* every iteration of the loop of project_srv, and in every returned
\* projection, the SRV norm of the projection equals it when the projection
\* is finite, and a projection that is not finite has a norm that is not a
\* number.
C28_NormKeptWhenFinite ==
    /\ (op = "project_srv" /\ pc = "project_srv") =>
           proj_st.initial_norm = srv_norm(args.srv)
    /\ (ProjectSrvIterated /\ IsFiniteCurve(proj_st.proj)) => SameNormAsInput
    /\ (ProjectSrvIterated /\ ~IsFiniteCurve(proj_st.proj)) =>
           srv_norm(proj_st.proj) = NaN
    /\ ProjectSrvReturned =>
           /\ ret.val = proj_st.proj
           /\ IsFiniteCurve(ret.val) =>
                  FAbs(FSub(srv_norm(ret.val), srv_norm(args.srv))) <= Tolerance

\* a finite projection returned after two iterations that moved the input
C28_Witness ==
    /\ ProjectSrvReturned
    /\ proj_st.nb_iter >= 2
    /\ IsFiniteCurve(ret.val)
    /\ ret.val # args.srv
    /\ SameNormAsInput

\* the input of project_srv is below atol already, or no iteration is allowed
NothingToProject ==
    /\ op = "project_srv"
    /\ \/ FLt(ResidualNorm(args.srv), args.atol)
       \/ args.max_iter <= 0

\* no iteration has run and none runs; what is returned is the input
C29_InputReturned ==
    /\ (pc = "project_srv" /\ NothingToProject) =>
           /\ proj_st.nb_iter = 0
           /\ proj_st.proj = args.srv
           /\ caller_srv = args.srv
           /\ ~loop_condition(proj_st.criteria, proj_st.atol,
                               proj_st.nb_iter, proj_st.max_iter)
    /\ (pc = "returned" /\ NothingToProject /\ ret.status # "error") =>
           /\ ret.status = "ok"
           /\ proj_st.nb_iter = 0
           /\ ret.val = args.srv
           /\ caller_srv = args.srv
    /\ (pc = "returned" /\ NothingToProject /\ ret.status = "error") =>
           ret.err = "AssertionError"

\* the only step of such a call is its return
C29_ReturnStep ==
    (pc = "project_srv" /\ NothingToProject) =>
        /\ pc' = "returned"
        /\ ret'.status = "ok"
        /\ ret'.val = args.srv
        /\ proj_st' = proj_st
        /\ caller_srv' = caller_srv

\* C29: when the input srv has a residual norm < atol already, or max_iter
\* <= 0, project_srv runs zero iterations and returns the input srv with
\* unchanged values.
C29_ZeroIterations ==
    /\ []C29_InputReturned
    /\ [][C29_ReturnStep]_vars

\* an input below atol returned as it is although iterations were allowed
C29_Witness ==
    /\ ProjectSrvReturned
    /\ FLt(ResidualNorm(args.srv), args.atol)
    /\ args.max_iter >= 1
    /\ proj_st.nb_iter = 0
    /\ ret.val = args.srv

SpaceDerivativeReturned ==
    /\ pc = "returned"
    /\ op = "space_derivative"
    /\ ret.status = "ok"

\* the two vectors are equal up to the rounding of the arithmetic
CloseVec(u, v) ==
    /\ IsFiniteVec(u)
    /\ IsFiniteVec(v)
    /\ \A c \in DOMAIN u : FAbs(FSub(u[c], v[c])) <= Tolerance

\* C25: space_derivative of a curve with n points is n times the forward
\* difference curve[1] - curve[0] at the first point, n times the backward
\* difference curve[n-1] - curve[n-2] at the last point and n times the
\* halved central difference (curve[j+1] - curve[j-1]) / 2 at every interior
\* point j; it is zero at every point of a constant curve.
C25_SpaceDerivative ==
    SpaceDerivativeReturned =>
        LET curve == args.curve
            n == Len(curve)
        IN  /\ Len(ret.val) = n
            /\ CloseVec(ret.val[1],
                        VScale(FInt(n), VSub(curve[2], curve[1])))
            /\ CloseVec(ret.val[n],
                        VScale(FInt(n), VSub(curve[n], curve[n - 1])))
            /\ \A j \in 2..(n - 1) :
                  CloseVec(ret.val[j],
                           VScale(FInt(n),
                                  VScale(FDiv(One, FInt(2)),
                                         VSub(curve[j + 1], curve[j - 1]))))
            /\ (\A j \in 1..n : curve[j] = curve[1]) =>
                  \A j \in 1..n : \A c \in DOMAIN ret.val[j] : ret.val[j][c] = 0

\* a curve of four points whose derivative differs at the two interior points
C25_Witness ==
    /\ SpaceDerivativeReturned
    /\ Len(args.curve) = 4
    /\ ret.val[2] # ret.val[3]
    /\ ret.val[2] # VScale(FInt(4), VSub(args.curve[3], args.curve[2]))

\* construct_reparametrization has returned its grid
ReparReturned ==
    /\ pc = "returned"
    /\ op = "construct_reparametrization"

\* the row has a consecutive pair that decreases, from the column j on
DecreasesFrom(row, j) ==
    \E k \in j..(Len(row) - 1) : FLt(row[k + 1], row[k])

\* C22 as stated: in every pass i the warning is printed when the row
\* rep[i + 1, :] has a consecutive pair that decreases, whatever the column
\* of the pair, and it is not printed while the rows computed so far have
\* none (grids of finite values)
C22_WarnsOnAnyDecrease ==
    (ReparReturned /\ IsFiniteCurve(ret.val.rep)) =>
        \A i \in 1..(args.n_times - 1) :
            /\ DecreasesFrom(ret.val.rep[i + 1], 1) => ret.val.printed[i]
            /\ (\A k \in 1..i : ~DecreasesFrom(ret.val.rep[k + 1], 1))
                   => ~ret.val.printed[i]

\* a grid of finite values whose second row decreases from its first to its
\* second column, and no warning at all
C22_Witness ==
    /\ ReparReturned
    /\ IsFiniteCurve(ret.val.rep)
    /\ FLt(ret.val.rep[2][2], ret.val.rep[2][1])
    /\ \A i \in 1..(args.n_times - 1) : ~ret.val.printed[i]

\* the grid built by the last iteration of the callable has a row with a
\* decreasing pair
DecreasingRowBuilt ==
    /\ op = "horizontal_path"
    /\ \E i \in 1..Len(hg.repar.rep) : DecreasesFrom(hg.repar.rep[i], 1)

\* C23 as stated: a row of the grid that is not non-decreasing is reported
\* at most, and the call goes on without raising
C23_WarningOnly ==
    DecreasingRowBuilt => ret.status # "error"

\* the warning was printed for the grid and the call ended in ValueError
C23_Witness ==
    /\ HorizontalPathEnded
    /\ DecreasingRowBuilt
    /\ \E i \in DOMAIN hg.repar.printed : hg.repar.printed[i]
    /\ ret.status = "error"
    /\ ret.err = "ValueError"

\* the first column of space_deriv_norm holds numbers other than 0 in the
\* rows before row i
FirstNormsUsable(space_deriv_norm, i) ==
    \A k \in 1..(i - 1) :
        space_deriv_norm[k][1] # NaN /\ space_deriv_norm[k][1] # 0

\* row 0 is the uniform grid and the last column is 1
UniformStartFixedEnd(rep, n_points) ==
    /\ \A j \in 1..n_points :
          rep[1][j] = FDiv(FInt(j - 1), FInt(n_points - 1))
    /\ rep[1][1] = 0
    /\ \A i \in DOMAIN rep : rep[i][n_points] = One

====
